---- MODULE Spec2Model ----
(***************************************************************************)
(* Model of the DualShock 4 input pipeline of ar-rhc/PS4Mapping:           *)
(*   controller/data_parser.py   report decoder and edge detector          *)
(*   gui/tabs/rumble_tab.py      haptic threshold detector                 *)
(*   network/udp_manager.py      UDP transport and IPC command channel     *)
(*   gui/main_window.py          reader thread and polling loop            *)
(*   gui/mapping_dialog.py       profile table of the mapping editor       *)
(* Each component has its own specification over the shared variables.     *)
(***************************************************************************)
EXTENDS Integers, Sequences, FiniteSets, TLC

VARIABLES
    \* ---- edge detector (DS4DataParser) ----
    previous_digital_state, \* self.previous_digital_state: [buttons: dict, dpad]
    digital_changes,        \* last return value of check_digital_changes: <<>> is None
    new_data,               \* history: the snapshot of the last call (<<>> before the first)
    before_data,            \* history: the snapshot of the call before the last one
    active_profile,         \* environment: the profile (target application) in effect
    last_under,             \* history: per profile, buttons down in the last snapshot seen under it
    prev_under,             \* history: last_under[active_profile] before the last call
    call_profile,           \* history: the profile in effect at the last call
    before_profile,         \* history: the profile in effect at the call before the last one
    cross_hist,             \* history: the values of button cross fed so far
    press_at,               \* history: 0-based indices of the calls that reported cross
    forwarded,              \* history: the datagrams the last call handed to the sender queue
    \* ---- haptic threshold detector (RumbleTab) ----
    tactile_enabled,           \* self.tactile_enabled
    threshold_enabled,         \* self.threshold1_enabled .. threshold3_enabled, by number
    prev_l2_value,             \* self.prev_l2_value
    prev_r2_value,             \* self.prev_r2_value
    l2_last_rumble_threshold,  \* self.l2_last_rumble_threshold, 0 for None
    r2_last_rumble_threshold,  \* self.r2_last_rumble_threshold, 0 for None
    requests,                  \* history: the triggers the last check_tactile_feedback fired for
    l2_hist,                   \* history: the L2 values fed so far
    l2_fires,                  \* history: per call, the number of requests fired for L2
    l2_last_before,            \* history: l2_last_rumble_threshold when the last call began
    \* ---- acquisition, polling loop and UDP sender (DS4ControlUI, UDPManager) ----
    ui,                 \* "base": DS4ControlUI alone; "hybrid": HybridDS4ControlUI
    is_running,         \* DS4ControlUI.is_running
    device_open,        \* the HID device self.h is open and answers reads
    reads,              \* the number of reports read from the device so far
    reader_alive,       \* _controller_reader_thread is in its loop
    report_queue,       \* self.report_queue (FIFO of reports)
    poll_scheduled,     \* an after() callback of poll_controller is pending
    processed,          \* history: the numbers of the reports handed to the edge detector
    udp_running,        \* UDPManager.is_running
    udp_queue,          \* UDPManager.udp_queue (FIFO of datagrams)
    sender_pc,          \* _udp_sender_thread: "loop", "send" (holds a packet) or "dead"
    packet,             \* the packet the sender thread holds, <<>> if none
    sent,               \* history: the datagrams passed to sendto with success, in order
    send_errors,        \* history: the number of sendto calls that raised
    packets_sent,       \* UDPManager.packets_sent
    packets_saved,      \* UDPManager.packets_saved (the dropped counter)
    reader_reads,         \* history: the reads the reader thread has completed
    read_failed,          \* history: a read of the reader thread has failed
    reads_at_failure,     \* history: reader_reads when that read failed
    processed_at_stop,    \* history: the reports processed when the polling loop stopped
    \* ---- inbound command channel (UDPManager.check_ipc_socket) ----
    ipc_inbox,               \* datagrams waiting on ipc_socket, oldest first
    arrived,                 \* the number of datagrams that have arrived so far
    toggle_window_callback,  \* self.toggle_window_callback is set
    lightbar_callback,       \* self._lightbar_callback is set
    last_recv,               \* history: <<payload>> of the last check, <<>> if none was waiting
    lightbar_invoked,        \* history: calls of the lightbar callback in the last check
    toggle_invoked,          \* history: calls of the toggle-window callback in the last check
    ipc_escaped,             \* history: an exception left check_ipc_socket
    \* ---- profile table of the mapping editor (MappingConfigFrame) ----
    mappings,             \* self.mappings: the profile names, in dict order
    active_profile_name,  \* self.active_profile_name
    listbox,              \* the names shown by self.profile_listbox, by index from 1
    selection,            \* the indices selected in self.profile_listbox
    last_profile_op,      \* history: the last operation of the editor
    \* ---- report decoder (DS4DataParser.parse_controller_data) ----
    last_report,          \* the report handed to the last call, <<>> before the first
    parsed_data,          \* what the call returned, <<>> when it raised or never ran
    \* ---- orientation estimator (VisualizationTab) ----
    orientation,          \* self.orientation: roll, pitch, yaw as exact fractions
    orientation_offset,   \* self.orientation_offset
    axis_locks,           \* self.axis_locks
    locked_axis,          \* self.locked_axis, "None" when no axis is locked
    alpha,                \* self.alpha
    damping_factor,       \* self.damping_factor
    displayed,            \* display_roll, display_pitch, display_yaw of the last drawing
    updates,              \* history: the number of estimator updates so far
    last_op,              \* history: the last operation and the state before it
    \* ---- resolver of the exported controller.lua (controller.processData) ----
    lua_previousState,    \* previousState: buttons[app][button] and dpad[app].current
    lua_events,           \* the keystrokes sent by the last call, in order
    lua_app,              \* the frontmost application of the last call
    lua_decoded,          \* the snapshot of the last call, <<>> when none was decoded
    lua_before_decoded,   \* history: the snapshot decoded before that one
    \* ---- rumble motors and their turn-off timers (DS4ControlUI) ----
    motors,               \* the motor values of the last output report written
    after_queue,          \* the delays of the armed after() callbacks not yet run
    tactile_duration,     \* RumbleTab.tactile_duration, in ms
    tactile_intensity,    \* RumbleTab.tactile_intensity
    fired_count,          \* history: the calls of trigger_tactile_feedback
    stopped_count,        \* history: the calls of stop_tactile_feedback
    \* ---- one tick of poll_controller and the mapping flow (DS4ControlUI) ----
    visual_tab_active,          \* the window is shown and its tab is 'Live Visualization'
    controller_mapping_active,  \* self._controller_mapping_active
    key_capture_active,         \* self._key_capture_active
    key_capture_btn,            \* self._key_capture_btn, "None" when there is none
    key_handlers_bound,         \* <KeyPress> and <KeyRelease> are bound
    stage_trace,                \* history: the stages the last tick ran, in order
    polled,                     \* history: the number of reports the loop has taken
    loop_before,                \* history: the two flags when the last tick began
    loop_after,                 \* history: the flags and the button when it ended
    loop_report,                \* history: <<the report of the last tick>>
    \* ---- settings file and the haptic configuration (SettingsManager, RumbleTab) ----
    settings_file,        \* the content of ds4_settings.json, a dict
    threshold_values,     \* self.threshold1_value .. threshold3_value of the rumble tab
    saved_config,         \* history: <<the haptic configuration at the last save>>
    settings_op           \* history: the last operation: "none", "save" or "load"

edgeVars == <<previous_digital_state, digital_changes, new_data, before_data,
              active_profile, last_under, prev_under, call_profile, before_profile,
              cross_hist, press_at, forwarded>>

hapticVars == <<tactile_enabled, threshold_enabled, prev_l2_value, prev_r2_value,
                l2_last_rumble_threshold, r2_last_rumble_threshold, requests,
                l2_hist, l2_fires, l2_last_before>>

pipeVars == <<reader_reads, read_failed, reads_at_failure, processed_at_stop, ui, is_running, device_open, reads, reader_alive, report_queue,
              poll_scheduled, processed, udp_running, udp_queue, sender_pc, packet,
              sent, send_errors, packets_sent, packets_saved>>

ipcVars == <<ipc_inbox, arrived, toggle_window_callback, lightbar_callback, last_recv,
             lightbar_invoked, toggle_invoked, ipc_escaped>>

profileVars == <<mappings, active_profile_name, listbox, selection, last_profile_op>>

decodeVars == <<last_report, parsed_data>>

orientVars == <<orientation, orientation_offset, axis_locks, locked_axis, alpha,
                damping_factor, displayed, updates, last_op>>

resolverVars == <<lua_previousState, lua_events, lua_app, lua_decoded, lua_before_decoded>>

rumbleVars == <<motors, after_queue, tactile_duration, tactile_intensity, fired_count,
                stopped_count>>

loopVars == <<visual_tab_active, controller_mapping_active, key_capture_active,
              key_capture_btn, key_handlers_bound, stage_trace, polled,
              loop_before, loop_after, loop_report>>

settingsVars == <<settings_file, threshold_values, saved_config, settings_op>>

vars == <<edgeVars, hapticVars, pipeVars, ipcVars, profileVars, decodeVars, orientVars,
          resolverVars, rumbleVars, loopVars, settingsVars>>

(***************************************************************************)
(* Bounds and input sets                                                   *)
(***************************************************************************)
\* number of snapshots fed to the edge detector in one behaviour
MaxSnaps == 5
\* number of calls of check_tactile_feedback in one behaviour
MaxCalls == 5
\* number of reports the device delivers in one behaviour
MaxReports == 3
\* number of command datagrams that arrive in one behaviour
MaxDatagrams == 2
\* number of profiles the table grows to
MaxProfiles == 4
\* number of profiles a loaded mappings file holds
MaxLoaded == 2
\* number of estimator updates in one behaviour
MaxUpdates == 2
\* number of haptic requests fired in one behaviour
MaxRequests == 4
\* a capacity for the report queue, below the number of reports read
QueueCapacity == 2

\* two of the twelve button ids of parse_controller_data (they are all treated alike)
Buttons == {"cross", "circle"}
\* three of the nine d-pad values of DPAD_STATES
DpadValues == {"none", "up", "ne"}
Profiles == {"A", "B"}

Snapshots == [buttons : [Buttons -> BOOLEAN], dpad : DpadValues]

\* a Python dict with no key
EmptyDict == [k \in {} |-> FALSE]

\* dict.get(key, default)
Get(d, k, default) == IF k \in DOMAIN d THEN d[k] ELSE default

Down(snap) == {b \in Buttons : snap.buttons[b]}

(***************************************************************************)
(* Edge detector: DS4DataParser.check_digital_changes                      *)
(***************************************************************************)
\* the state __init__ (and reset_digital_state) sets
InitialDigitalState == [buttons |-> EmptyDict, dpad |-> "none"]

\* mutant: the stored state is overwritten only when something was pressed
StoredStateOnlyOnChange(prev, data, has_changes) ==
    IF has_changes THEN [buttons |-> data.buttons, dpad |-> data.dpad] ELSE prev

\* lines 167-171: the state stored after a call
StoredState(prev, data, has_changes) ==
    [buttons |-> data.buttons, dpad |-> data.dpad]

\* mutant: every button that is down is listed, whatever the stored state
ChangedButtonsWhileDown(prev, data) ==
    LET down == {b \in DOMAIN data.buttons : data.buttons[b]}
    IN  [b \in down |-> TRUE]

\* mutant: every button whose value differs from the stored one is listed
ChangedButtonsBothEdges(prev, data) ==
    LET changed == {b \in DOMAIN data.buttons :
                      data.buttons[b] # Get(prev.buttons, b, FALSE)}
    IN  [b \in changed |-> data.buttons[b]]

\* lines 153-158: changes['buttons'], one entry True per rising button
ChangedButtons(prev, data) ==
    LET rising == {b \in DOMAIN data.buttons :
                     data.buttons[b] /\ ~Get(prev.buttons, b, FALSE)}
    IN  [b \in rising |-> TRUE]

\* lines 160-165: changes['dpad'], "None" when the d-pad did not rise
ChangedDpad(prev, data) ==
    IF data.dpad # "none" /\ data.dpad # prev.dpad THEN data.dpad ELSE "None"

\* mutant: the change-set is returned also when nothing rose
ReturnAlways(changes, has_changes) == <<changes>>

\* line 173: return changes if has_changes else None
ReturnValue(changes, has_changes) == IF has_changes THEN <<changes>> ELSE <<>>

\* the whole call: [ret |-> return value, state |-> self.previous_digital_state after]
check_digital_changes(prev, data) ==
    LET btn == ChangedButtons(prev, data)
        dp  == ChangedDpad(prev, data)
        has_changes == (DOMAIN btn # {}) \/ dp # "None"
        changes == [buttons |-> btn, dpad |-> dp]
    IN  [ret   |-> ReturnValue(changes, has_changes),
         state |-> StoredState(prev, data, has_changes)]

(***************************************************************************)
(* Transport: UDPManager.send_digital_changes                              *)
(***************************************************************************)
\* the order in which parse_controller_data inserts the buttons into its dict
ButtonOrder == <<"cross", "circle">>

\* the JSON object of one event; the timestamp field (time.time()) is left out
PressEvent(name) == [event_type |-> "press", button |-> name]

\* mutant: the d-pad press is never given a datagram of its own
DpadEventsDropped(changes) == <<>>

\* lines 147-154: the datagram of the d-pad press, if there is one
DpadEvents(changes) ==
    IF changes.dpad # "None" /\ changes.dpad # "none"
    THEN <<PressEvent("dpad_" \o changes.dpad)>>
    ELSE <<>>

\* lines 138-145: one datagram per entry of changes['buttons'] that is True
ButtonEvents(changes) ==
    LET listed(b) == b \in DOMAIN changes.buttons /\ changes.buttons[b]
        names == SelectSeq(ButtonOrder, listed)
    IN  [i \in 1..Len(names) |-> PressEvent(names[i])]

\* the datagrams send_digital_changes puts on udp_queue, in order
send_digital_changes(changes) == ButtonEvents(changes) \o DpadEvents(changes)

\* poll_controller lines 255-269: what is sent for one return value
Dispatch(ret, mapping_active) ==
    IF mapping_active /\ ret # <<>> THEN <<>>
    ELSE IF ret # <<>> THEN send_digital_changes(ret[1])
    ELSE <<>>

EdgeInit ==
    /\ previous_digital_state = InitialDigitalState
    /\ digital_changes = <<>>
    /\ new_data = <<>>
    /\ before_data = <<>>
    /\ active_profile = "A"
    /\ last_under = [p \in Profiles |-> {}]
    /\ prev_under = {}
    /\ call_profile = "A"
    /\ before_profile = "A"
    /\ cross_hist = <<>>
    /\ press_at = {}
    /\ forwarded = <<>>

\* poll_controller lines 254-269 for one snapshot, mapping mode off: the call of
\* check_digital_changes and the dispatch of its return value
FeedSnapshot ==
    /\ Len(cross_hist) < MaxSnaps
    /\ \E snap \in Snapshots :
         LET r == check_digital_changes(previous_digital_state, snap)
             reported == r.ret # <<>> /\ "cross" \in DOMAIN r.ret[1].buttons
         IN  /\ previous_digital_state' = r.state
             /\ digital_changes' = r.ret
             /\ new_data' = <<snap>>
             /\ before_data' = new_data
             /\ prev_under' = last_under[active_profile]
             /\ call_profile' = active_profile
             /\ before_profile' = call_profile
             /\ forwarded' = Dispatch(r.ret, FALSE)
             /\ last_under' = [last_under EXCEPT ![active_profile] = Down(snap)]
             /\ cross_hist' = Append(cross_hist, snap.buttons["cross"])
             /\ press_at' = IF reported THEN press_at \cup {Len(cross_hist)} ELSE press_at
    /\ UNCHANGED active_profile

\* the frontmost application changes: another profile is in effect
SwitchProfile ==
    /\ \E p \in Profiles \ {active_profile} : active_profile' = p
    /\ UNCHANGED <<previous_digital_state, digital_changes, new_data, before_data,
                   last_under, prev_under, call_profile, before_profile,
                   cross_hist, press_at, forwarded>>

(***************************************************************************)
(* Haptic threshold detector: RumbleTab.check_tactile_feedback             *)
(***************************************************************************)
\* the raw trigger values fed (a trigger is a byte, 0..255)
L2Values == {120, 126, 129, 130, 131, 200}
R2Values == {0, 200}
\* L2 values within hysteresis_margin of threshold 2, and one beyond it
L2NearValues == {126, 127, 128, 130}

\* the threshold values __init__ sets
threshold1_value == 64
threshold2_value == 128
threshold3_value == 192
threshold_value == <<threshold1_value, threshold2_value, threshold3_value>>
\* the margin __init__ sets; _check_threshold_crossing never reads it
hysteresis_margin == 2

\* the enable flags tried: threshold 2 alone, and all three (the default)
ThresholdConfigs == {<<FALSE, TRUE, FALSE>>, <<TRUE, TRUE, TRUE>>}

\* mutant: a downward crossing fires like an upward one
OnCrossedDownFire(st, n) == [last |-> n, fired |-> Append(st.fired, n)]

\* lines 430-435: a downward crossing clears the trigger's last threshold
OnCrossedDown(st, n) == [st EXCEPT !.last = 0]

\* lines 419-427: an upward crossing fires unless this threshold fired last
OnCrossedUp(st, n) ==
    IF st.last # n THEN [last |-> n, fired |-> Append(st.fired, n)] ELSE st

\* one round of the loop of _check_threshold_crossing, for threshold n
CheckOneThreshold(st, n, enabled, current_value, prev_value) ==
    IF ~enabled[n] THEN st
    ELSE IF prev_value < threshold_value[n] /\ threshold_value[n] <= current_value
         THEN OnCrossedUp(st, n)
    ELSE IF current_value < threshold_value[n] /\ threshold_value[n] <= prev_value
         THEN OnCrossedDown(st, n)
    ELSE st

\* _check_threshold_crossing: [last |-> the trigger's last threshold after the call,
\* fired |-> the thresholds _trigger_tactile_feedback was called for, in order]
check_threshold_crossing(last, enabled, current_value, prev_value) ==
    LET s0 == [last |-> last, fired |-> <<>>]
        s1 == CheckOneThreshold(s0, 1, enabled, current_value, prev_value)
        s2 == CheckOneThreshold(s1, 2, enabled, current_value, prev_value)
    IN  CheckOneThreshold(s2, 3, enabled, current_value, prev_value)

\* set_rumble_simple(left_rumble, right_rumble): the motor bytes of the report
set_rumble_simple(left_rumble, right_rumble) == [left |-> left_rumble, right |-> right_rumble]

\* trigger_tactile_feedback lines 345-348: the motors driven for a trigger
TriggerMotors(trigger, intensity) ==
    IF trigger = "L2" THEN set_rumble_simple(intensity, 0)
    ELSE set_rumble_simple(0, intensity)

\* mutant: arming a turn-off cancels the ones armed before
ArmedAlone(queue, duration) == <<duration>>

\* line 349: self.after(duration, self.stop_tactile_feedback)
Armed(queue, duration) == Append(queue, duration)

\* trigger_tactile_feedback(trigger) for each request in turn
RECURSIVE AfterRequests(_, _)
AfterRequests(reqs, st) ==
    IF reqs = <<>> THEN st
    ELSE AfterRequests(Tail(reqs),
             [motors |-> TriggerMotors(Head(reqs), tactile_intensity),
              queue |-> Armed(st.queue, tactile_duration)])

HapticInitFixed ==
    /\ prev_l2_value = 0
    /\ prev_r2_value = 0
    /\ l2_last_rumble_threshold = 0
    /\ r2_last_rumble_threshold = 0
    /\ requests = <<>>
    /\ l2_hist = <<>>
    /\ l2_fires = <<>>
    /\ l2_last_before = 0

\* the state after __init__, tactile feedback off, all thresholds enabled
HapticInit ==
    /\ tactile_enabled = FALSE
    /\ threshold_enabled = <<TRUE, TRUE, TRUE>>
    /\ HapticInitFixed

\* the state after __init__ and the settings load, which sets the flags
HapticInitAny ==
    /\ tactile_enabled \in BOOLEAN
    /\ threshold_enabled \in ThresholdConfigs
    /\ HapticInitFixed

\* check_tactile_feedback(l2_value, r2_value), the two values drawn from the given sets
CheckTactileFeedbackOver(l2_values, r2_values) ==
    /\ Len(l2_hist) < MaxCalls
    /\ \E l2_value \in l2_values, r2_value \in r2_values :
         IF ~tactile_enabled
         THEN /\ l2_hist' = Append(l2_hist, l2_value)
              /\ l2_fires' = Append(l2_fires, 0)
              /\ l2_last_before' = l2_last_rumble_threshold
              /\ requests' = <<>>
              /\ UNCHANGED <<prev_l2_value, prev_r2_value,
                             l2_last_rumble_threshold, r2_last_rumble_threshold>>
              /\ UNCHANGED <<motors, after_queue, fired_count>>
         ELSE LET l == check_threshold_crossing(l2_last_rumble_threshold,
                           threshold_enabled, l2_value, prev_l2_value)
                  r == check_threshold_crossing(r2_last_rumble_threshold,
                           threshold_enabled, r2_value, prev_r2_value)
              IN  /\ l2_last_rumble_threshold' = l.last
                  /\ prev_l2_value' = l2_value
                  /\ r2_last_rumble_threshold' = r.last
                  /\ prev_r2_value' = r2_value
                  /\ requests' = [i \in 1..Len(l.fired) |-> "l2"]
                                   \o [i \in 1..Len(r.fired) |-> "r2"]
                  /\ l2_hist' = Append(l2_hist, l2_value)
                  /\ l2_fires' = Append(l2_fires, Len(l.fired))
                  /\ l2_last_before' = l2_last_rumble_threshold
                  /\ LET done == AfterRequests(requests',
                                     [motors |-> motors, queue |-> after_queue])
                     IN  /\ motors' = done.motors
                         /\ after_queue' = done.queue
                         /\ fired_count' = fired_count + Len(requests')
    /\ UNCHANGED <<tactile_enabled, threshold_enabled, tactile_duration, tactile_intensity,
                   stopped_count>>

\* check_tactile_feedback called by update_visualizations with the triggers of a report
CheckTactileFeedback == CheckTactileFeedbackOver(L2Values, R2Values)

\* check_tactile_feedback while L2 hovers about threshold 2 and R2 is at rest
CheckTactileFeedbackNearThreshold == CheckTactileFeedbackOver(L2NearValues, {0})

(***************************************************************************)
(* Acquisition thread, polling loop and UDP sender thread                  *)
(***************************************************************************)
\* the digital content of the reports the device delivers: idle, cross down,
\* cross and circle down with the d-pad up
PipeSnapshots ==
    {[buttons |-> [b \in Buttons |-> FALSE], dpad |-> "none"],
     [buttons |-> [b \in Buttons |-> b = "cross"], dpad |-> "none"],
     [buttons |-> [b \in Buttons |-> TRUE], dpad |-> "up"]}

\* mutant: a new item jumps the queue
QueuePutFront(q, items) == items \o q

\* queue.Queue.put of each item in turn
QueuePut(q, items) == q \o items

\* the datagrams of report n, each tagged with the number of its report
Tagged(events, n) == [i \in 1..Len(events) |-> [event |-> events[i], report |-> n]]

PipeInitFixed ==
    /\ reader_reads = 0
    /\ read_failed = FALSE
    /\ reads_at_failure = 0
    /\ processed_at_stop = 0
    /\ is_running = TRUE
    /\ device_open = TRUE
    /\ reads = 0
    /\ reader_alive = TRUE
    /\ report_queue = <<>>
    /\ poll_scheduled = TRUE
    /\ processed = <<>>
    /\ udp_running = TRUE
    /\ udp_queue = <<>>
    /\ sender_pc = "loop"
    /\ packet = <<>>
    /\ sent = <<>>
    /\ send_errors = 0
    /\ packets_sent = 0
    /\ packets_saved = 0

\* the state after DS4ControlUI.__init__ (test_mode off)
PipeInit == ui = "base" /\ PipeInitFixed

\* the state after the constructor of either user interface
PipeInitAny == ui \in {"base", "hybrid"} /\ PipeInitFixed

\* _controller_reader_thread, one round: h.read returns a report, which is queued
ReaderRead ==
    /\ reader_alive /\ is_running /\ device_open
    /\ reads < MaxReports
    /\ \E snap \in PipeSnapshots :
         report_queue' = QueuePut(report_queue, <<[n |-> reads + 1, snap |-> snap]>>)
    /\ reads' = reads + 1
    /\ UNCHANGED <<ui, is_running, device_open, reader_alive, poll_scheduled, processed,
                   udp_running, udp_queue, sender_pc, packet, sent, send_errors,
                   packets_sent, packets_saved>>
    /\ UNCHANGED <<edgeVars, hapticVars, ipcVars, profileVars, decodeVars, orientVars, resolverVars, rumbleVars, loopVars, settingsVars>>
    /\ reader_reads' = reader_reads + 1
    /\ UNCHANGED <<processed_at_stop, read_failed, reads_at_failure>>

\* _controller_reader_thread, one round: h.read raises (disconnect, or a closed device)
ReaderReadFails ==
    /\ reader_alive /\ is_running
    /\ is_running' = FALSE
    /\ device_open' = FALSE
    /\ UNCHANGED <<ui, reads, reader_alive, report_queue, poll_scheduled, processed,
                   udp_running, udp_queue, sender_pc, packet, sent, send_errors,
                   packets_sent, packets_saved>>
    /\ UNCHANGED <<edgeVars, hapticVars, ipcVars, profileVars, decodeVars, orientVars, resolverVars, rumbleVars, loopVars, settingsVars>>
    /\ read_failed' = TRUE
    /\ reads_at_failure' = reader_reads
    /\ UNCHANGED <<processed_at_stop, reader_reads>>

\* _controller_reader_thread: the loop test finds is_running false, the thread ends
ReaderExit ==
    /\ reader_alive /\ ~is_running
    /\ reader_alive' = FALSE
    /\ UNCHANGED <<ui, is_running, device_open, reads, report_queue, poll_scheduled,
                   processed, udp_running, udp_queue, sender_pc, packet, sent, send_errors,
                   packets_sent, packets_saved>>
    /\ UNCHANGED <<edgeVars, hapticVars, ipcVars, profileVars, decodeVars, orientVars, resolverVars, rumbleVars, loopVars, settingsVars>>
    /\ UNCHANGED <<processed_at_stop, read_failed, reader_reads, reads_at_failure>>

\* the processing of one report by either polling loop: edge detector, then dispatch
ProcessReport(report) ==
    LET r   == check_digital_changes(previous_digital_state, report.snap)
        out == Dispatch(r.ret, FALSE)
    IN  /\ previous_digital_state' = r.state
        /\ digital_changes' = r.ret
        /\ before_data' = new_data
        /\ new_data' = <<report.snap>>
        /\ forwarded' = out
        /\ processed' = Append(processed, report.n)
        /\ udp_queue' = QueuePut(udp_queue, Tagged(out, report.n))
        /\ packets_sent' = IF r.ret # <<>> THEN packets_sent + 1 ELSE packets_sent
        /\ UNCHANGED <<active_profile, last_under, prev_under, call_profile,
                       before_profile, cross_hist, press_at>>

\* mutant: the loop reschedules itself whatever the flag says
RescheduledAlways(running) == TRUE

\* poll_controller lines 277-278: if self.is_running: self.after(...)
Rescheduled(running) == running

\* DS4ControlUI.poll_controller: at most one report of the queue, then reschedule
PollController ==
    /\ ui = "base" /\ poll_scheduled
    /\ IF report_queue = <<>>
       THEN UNCHANGED <<report_queue, processed, udp_queue, packets_sent, edgeVars>>
       ELSE /\ ProcessReport(Head(report_queue))
            /\ report_queue' = Tail(report_queue)
    /\ poll_scheduled' = Rescheduled(is_running)
    /\ UNCHANGED <<ui, is_running, device_open, reads, reader_alive, udp_running,
                   sender_pc, packet, sent, send_errors, packets_saved>>
    /\ UNCHANGED <<hapticVars, ipcVars, profileVars, decodeVars, orientVars, resolverVars, rumbleVars, loopVars, settingsVars>>
    /\ processed_at_stop' = IF Rescheduled(is_running) THEN processed_at_stop ELSE Len(processed')
    /\ UNCHANGED <<read_failed, reader_reads, reads_at_failure>>

\* HybridDS4ControlUI.poll_controller: h.read on the main thread returns a report
HybridPollController ==
    /\ ui = "hybrid" /\ poll_scheduled /\ device_open
    /\ reads < MaxReports
    /\ \E snap \in PipeSnapshots : ProcessReport([n |-> reads + 1, snap |-> snap])
    /\ reads' = reads + 1
    /\ UNCHANGED <<ui, is_running, device_open, reader_alive, report_queue, poll_scheduled,
                   udp_running, sender_pc, packet, sent, send_errors, packets_saved>>
    /\ UNCHANGED <<hapticVars, ipcVars, profileVars, decodeVars, orientVars, resolverVars, rumbleVars, loopVars, settingsVars>>
    /\ UNCHANGED <<processed_at_stop, read_failed, reader_reads, reads_at_failure>>

\* HybridDS4ControlUI.poll_controller: h.read raises, quit_application, no reschedule
HybridPollReadFails ==
    /\ ui = "hybrid" /\ poll_scheduled
    /\ device_open' = FALSE
    /\ udp_running' = FALSE
    /\ poll_scheduled' = FALSE
    /\ UNCHANGED <<ui, is_running, reads, reader_alive, report_queue, processed,
                   udp_queue, sender_pc, packet, sent, send_errors, packets_sent,
                   packets_saved>>
    /\ UNCHANGED <<edgeVars, hapticVars, ipcVars, profileVars, decodeVars, orientVars, resolverVars, rumbleVars, loopVars, settingsVars>>
    /\ processed_at_stop' = Len(processed)
    /\ UNCHANGED <<read_failed, reader_reads, reads_at_failure>>

\* WindowManager.quit_application: the flags are cleared and the window destroyed
QuitApplication ==
    /\ udp_running
    /\ is_running' = FALSE
    /\ device_open' = FALSE
    /\ udp_running' = FALSE
    /\ poll_scheduled' = FALSE
    /\ UNCHANGED <<ui, reads, reader_alive, report_queue, processed, udp_queue,
                   sender_pc, packet, sent, send_errors, packets_sent, packets_saved>>
    /\ UNCHANGED <<edgeVars, hapticVars, ipcVars, profileVars, decodeVars, orientVars, resolverVars, rumbleVars, loopVars, settingsVars>>
    /\ processed_at_stop' = Len(processed)
    /\ UNCHANGED <<read_failed, reader_reads, reads_at_failure>>

\* _udp_sender_thread lines 80-83: the loop test passes and get() returns a packet
SenderGet ==
    /\ sender_pc = "loop" /\ udp_running
    /\ udp_queue # <<>>
    /\ packet' = <<Head(udp_queue)>>
    /\ udp_queue' = Tail(udp_queue)
    /\ sender_pc' = "send"
    /\ UNCHANGED <<ui, is_running, device_open, reads, reader_alive, report_queue,
                   poll_scheduled, processed, udp_running, sent, send_errors,
                   packets_sent, packets_saved>>
    /\ UNCHANGED <<edgeVars, hapticVars, ipcVars, profileVars, decodeVars, orientVars, resolverVars, rumbleVars, loopVars, settingsVars>>
    /\ UNCHANGED <<processed_at_stop, read_failed, reader_reads, reads_at_failure>>

\* _udp_sender_thread lines 84-85: sendto succeeds
SenderSend ==
    /\ sender_pc = "send"
    /\ sent' = Append(sent, packet[1])
    /\ packet' = <<>>
    /\ sender_pc' = "loop"
    /\ UNCHANGED <<ui, is_running, device_open, reads, reader_alive, report_queue,
                   poll_scheduled, processed, udp_running, udp_queue, send_errors,
                   packets_sent, packets_saved>>
    /\ UNCHANGED <<edgeVars, hapticVars, ipcVars, profileVars, decodeVars, orientVars, resolverVars, rumbleVars, loopVars, settingsVars>>
    /\ UNCHANGED <<processed_at_stop, read_failed, reader_reads, reads_at_failure>>

\* lines 88-90: except Exception: print, break; the counters are not touched
AfterSendError == [pc |-> "dead", saved |-> packets_saved]

\* _udp_sender_thread lines 85, 88-90: sendto raises
SenderSendFails ==
    /\ sender_pc = "send"
    /\ send_errors' = send_errors + 1
    /\ packet' = <<>>
    /\ sender_pc' = AfterSendError.pc
    /\ packets_saved' = AfterSendError.saved
    /\ UNCHANGED <<ui, is_running, device_open, reads, reader_alive, report_queue,
                   poll_scheduled, processed, udp_running, udp_queue, sent, packets_sent>>
    /\ UNCHANGED <<edgeVars, hapticVars, ipcVars, profileVars, decodeVars, orientVars, resolverVars, rumbleVars, loopVars, settingsVars>>
    /\ UNCHANGED <<processed_at_stop, read_failed, reader_reads, reads_at_failure>>

\* _udp_sender_thread line 80: the loop test finds is_running false, the thread ends
SenderExit ==
    /\ sender_pc = "loop" /\ ~udp_running
    /\ sender_pc' = "dead"
    /\ UNCHANGED <<ui, is_running, device_open, reads, reader_alive, report_queue,
                   poll_scheduled, processed, udp_running, udp_queue, packet, sent,
                   send_errors, packets_sent, packets_saved>>
    /\ UNCHANGED <<edgeVars, hapticVars, ipcVars, profileVars, decodeVars, orientVars, resolverVars, rumbleVars, loopVars, settingsVars>>
    /\ UNCHANGED <<processed_at_stop, read_failed, reader_reads, reads_at_failure>>

(***************************************************************************)
(* Inbound command channel: UDPManager.check_ipc_socket                    *)
(***************************************************************************)
\* the buffer size given to recvfrom
IpcBufSize == 1024

\* The texts a payload (or its first IpcBufSize bytes) can be:
\*   lightbar_object  a JSON object whose command is set_lightbar
\*   other_object     a JSON object with another command, or none
\*   json_array       JSON, an array
\*   json_string      JSON, the string "toggle_window" in quotes
\*   toggle_window    the bare text toggle_window, which is not JSON
\*   garbage          text that is not JSON and not toggle_window
\*   bad_utf8         bytes that are not UTF-8
TextKinds == {"lightbar_object", "other_object", "json_array", "json_string",
              "toggle_window", "garbage", "bad_utf8"}

\* a datagram: its length, what its whole payload is, what its first IpcBufSize bytes are
Payloads ==
    {p \in [len : {13, 64, 2000}, whole : TextKinds, head : TextKinds] :
        /\ p.len <= IpcBufSize => p.head = p.whole
        /\ p.len > IpcBufSize =>
             /\ p.whole \in {"lightbar_object", "garbage"}
             /\ p.head \in {"lightbar_object", "garbage"}
        /\ p.whole = "toggle_window" <=> p.len = 13
        /\ p.whole \in {"lightbar_object", "bad_utf8"} => p.len >= 64}

\* line 170: recvfrom(1024) keeps the first 1024 bytes of the datagram
Recvfrom(p) == p.head

\* line 176: json.loads(message): the type of the value, or the exception raised
JsonLoads(text) ==
    CASE text \in {"lightbar_object", "other_object"} -> "dict"
      [] text = "json_array" -> "list"
      [] text = "json_string" -> "str"
      [] OTHER -> "JSONDecodeError"

\* lines 172-189, the body of the outer try: the callbacks called and the exception
\* that leaves it ("none" if none does); a callback may itself raise
IpcBody(text, callback_raises) ==
    LET quiet == [lightbar |-> 0, toggle |-> 0, raised |-> "none"]
        after == IF callback_raises THEN "CallbackError" ELSE "none"
    IN  IF text = "bad_utf8" THEN [quiet EXCEPT !.raised = "UnicodeDecodeError"]
        ELSE IF JsonLoads(text) = "JSONDecodeError"
             THEN IF text = "toggle_window" /\ toggle_window_callback
                  THEN [lightbar |-> 0, toggle |-> 1, raised |-> after]
                  ELSE quiet
        ELSE IF JsonLoads(text) # "dict"
             THEN [quiet EXCEPT !.raised = "AttributeError"]
        ELSE IF text = "lightbar_object" /\ lightbar_callback
             THEN [lightbar |-> 1, toggle |-> 0, raised |-> after]
        ELSE quiet

\* mutant: only the empty socket is handled
OuterHandlesBlockingOnly(exc) == exc \in {"none", "BlockingIOError"}

\* lines 191-194: except BlockingIOError: pass / except Exception: print
OuterHandles(exc) ==
    exc \in {"none", "BlockingIOError", "UnicodeDecodeError", "AttributeError",
             "CallbackError", "JSONDecodeError"}

IpcInitFixed ==
    /\ ipc_inbox = <<>>
    /\ arrived = 0
    /\ last_recv = <<>>
    /\ lightbar_invoked = 0
    /\ toggle_invoked = 0
    /\ ipc_escaped = FALSE

\* the state after DS4ControlUI.create_widgets, which sets both callbacks
IpcInit ==
    /\ toggle_window_callback = TRUE
    /\ lightbar_callback = TRUE
    /\ IpcInitFixed

\* the state after UDPManager.__init__ and any use of the two setters
IpcInitAny ==
    /\ toggle_window_callback \in BOOLEAN
    /\ lightbar_callback \in BOOLEAN
    /\ IpcInitFixed

\* a datagram from another process arrives on the IPC port
DatagramArrives ==
    /\ arrived < MaxDatagrams
    /\ \E p \in Payloads : ipc_inbox' = Append(ipc_inbox, p)
    /\ arrived' = arrived + 1
    /\ UNCHANGED <<toggle_window_callback, lightbar_callback, last_recv,
                   lightbar_invoked, toggle_invoked, ipc_escaped>>

\* check_ipc_socket, one call
CheckIpcSocket ==
    /\ ~ipc_escaped
    /\ IF ipc_inbox = <<>>
       THEN /\ last_recv' = <<>>
            /\ lightbar_invoked' = 0
            /\ toggle_invoked' = 0
            /\ ipc_escaped' = ~OuterHandles("BlockingIOError")
            /\ UNCHANGED ipc_inbox
       ELSE \E callback_raises \in BOOLEAN :
              LET r == IpcBody(Recvfrom(Head(ipc_inbox)), callback_raises)
              IN  /\ last_recv' = <<Head(ipc_inbox)>>
                  /\ ipc_inbox' = Tail(ipc_inbox)
                  /\ lightbar_invoked' = r.lightbar
                  /\ toggle_invoked' = r.toggle
                  /\ ipc_escaped' = ~OuterHandles(r.raised)
    /\ UNCHANGED <<arrived, toggle_window_callback, lightbar_callback>>

(***************************************************************************)
(* Profile table of the mapping editor: MappingConfigFrame                 *)
(***************************************************************************)
\* f"Profile_{k}"
ProfileName(k) == "Profile_" \o ToString(k)

\* the profile names a mappings file may hold
LoadedNames == {"Default", "Safari", ProfileName(2), ProfileName(3)}

Range(seq) == {seq[i] : i \in 1..Len(seq)}

\* the key lists of the dicts load_mappings may return
LoadedTables ==
    {t \in UNION {[1..n -> LoadedNames] : n \in 0..MaxLoaded} :
        \A i, j \in 1..Len(t) : i # j => t[i] # t[j]}

\* __init__ lines 48-51: Default is added to a table that lacks it
WithDefault(t) == IF "Default" \in Range(t) THEN t ELSE Append(t, "Default")

\* populate_profile_listbox: the indices it selects, the rows of the active profile
PopulatedSelection(names, active) == {i \in 1..Len(names) : names[i] = active}

\* on_profile_listbox_select: the active profile after the event
SelectedProfile(names, sel, active) ==
    IF sel # {} THEN names[CHOOSE i \in sel : \A j \in sel : i <= j] ELSE active

\* add_profile lines 252-256: the first of Profile_{len+1}, Profile_{len+2}, ... not in use
NewProfileName(names) ==
    LET free == {i \in 1..(Len(names) + 1) : ProfileName(Len(names) + i) \notin Range(names)}
    IN  ProfileName(Len(names) + (CHOOSE i \in free : \A j \in free : i <= j))

\* mutant: any active profile may be deleted
DeleteAllowedAlways(active) == TRUE

\* delete_profile lines 266-268: the Default profile is refused
DeleteAllowed(active) == active # "Default"

\* the names left by del self.mappings[name]
WithoutProfile(names, name) == SelectSeq(names, LAMBDA n : n # name)

\* the state after __init__ and create_widgets with no mappings file
ProfileInit ==
    /\ mappings = <<"Default">>
    /\ active_profile_name = "Default"
    /\ listbox = <<"Default">>
    /\ selection = {1}
    /\ last_profile_op = "none"

\* the state after __init__ and create_widgets, for any loaded table
ProfileInitAny ==
    /\ \E t \in LoadedTables : mappings = WithDefault(t)
    /\ active_profile_name = "Default"
    /\ listbox = mappings
    /\ selection = PopulatedSelection(mappings, "Default")
    /\ last_profile_op = "none"

\* add_profile
AddProfile ==
    /\ Len(mappings) < MaxProfiles
    /\ LET new_name == NewProfileName(mappings)
           names == Append(mappings, new_name)
           sel == PopulatedSelection(names, active_profile_name)
                    \cup {i \in 1..Len(names) : names[i] = new_name}
       IN  /\ mappings' = names
           /\ listbox' = names
           /\ selection' = sel
           /\ active_profile_name' = SelectedProfile(names, sel, active_profile_name)
    /\ last_profile_op' = "add"

\* the user clicks a row of the listbox: on_profile_listbox_select
SelectProfile ==
    /\ \E i \in 1..Len(listbox) :
         /\ selection' = {i}
         /\ active_profile_name' = SelectedProfile(listbox, {i}, active_profile_name)
    /\ last_profile_op' = "select"
    /\ UNCHANGED <<mappings, listbox>>

\* delete_profile: refused for Default, otherwise the user confirms or not
DeleteProfile ==
    \E confirmed \in BOOLEAN :
        IF DeleteAllowed(active_profile_name) /\ confirmed
        THEN /\ active_profile_name \in Range(mappings)
             /\ mappings' = WithoutProfile(mappings, active_profile_name)
             /\ active_profile_name' = "Default"
             /\ listbox' = mappings'
             /\ selection' = PopulatedSelection(mappings', "Default")
             /\ last_profile_op' = "delete"
        ELSE /\ last_profile_op' = "delete_refused"
             /\ UNCHANGED <<mappings, active_profile_name, listbox, selection>>

(***************************************************************************)
(* Report decoder: DS4DataParser.parse_controller_data, touch and battery  *)
(***************************************************************************)
\* the report lengths fed to the decoder
ReportLengths == {25, 31, 36, 38, 64}

\* the offsets of the bytes the touch and battery fields are read from
DecodedOffsets == {30, 35, 36, 37, 38, 39}

\* the values a byte of a report takes
ByteValues == {1, 128, 255}

\* a report: its length and its bytes at the decoded offsets it has
Reports ==
    UNION {{[len |-> n, at |-> f] :
              f \in [{o \in DecodedOffsets : o < n} -> ByteValues]} : n \in ReportLengths}

\* a & b on non-negative integers
RECURSIVE BitAnd(_, _)
BitAnd(a, b) ==
    IF a = 0 \/ b = 0 THEN 0
    ELSE (a % 2) * (b % 2) + 2 * BitAnd(a \div 2, b \div 2)

\* report[from:to]: the bytes at from..to-1 that the report has
RECURSIVE Slice(_, _, _)
Slice(r, from, to) ==
    IF from >= to \/ from >= r.len THEN <<>>
    ELSE <<r.at[from]>> \o Slice(r, from + 1, to)

\* struct.unpack('<h', b)[0]: <<value>>, or <<>> for struct.error when b is not 2 bytes
Unpack_h(b) ==
    IF Len(b) # 2 THEN <<>>
    ELSE LET u == b[1] + 256 * b[2]
         IN  <<IF u >= 32768 THEN u - 65536 ELSE u>>

\* line 119: 'active': bool(report[35] & 0x80)
TouchActive(r) == BitAnd(r.at[35], 128) # 0

\* line 120: 'id': report[35] & 0x7F
TouchId(r) == BitAnd(r.at[35], 127)

\* lines 117-130: data['touchpad'], <<>> when an unpack raises
Touchpad(r) ==
    IF r.len > 35
    THEN LET x == Unpack_h(Slice(r, 36, 38))
             y == Unpack_h(Slice(r, 38, 40))
         IN  IF x = <<>> \/ y = <<>> THEN <<>>
             ELSE <<[active |-> TouchActive(r), id |-> TouchId(r), x |-> x[1], y |-> y[1]]>>
    ELSE <<[active |-> FALSE, id |-> 0, x |-> 0, y |-> 0]>>

\* lines 133-136: data['battery']
Battery(r) == IF r.len > 30 THEN BitAnd(r.at[30], 15) ELSE 0

\* parse_controller_data: <<data>>, or <<>> when it raises
parse_controller_data(r) ==
    LET touchpad == Touchpad(r)
    IN  IF touchpad = <<>> THEN <<>>
        ELSE <<[touchpad |-> touchpad[1], battery |-> Battery(r)]>>

\* no report decoded yet
DecodeInit ==
    /\ last_report = <<>>
    /\ parsed_data = <<>>

\* one call of parse_controller_data
ParseReport ==
    \E r \in Reports :
        /\ last_report' = <<r>>
        /\ parsed_data' = parse_controller_data(r)

(***************************************************************************)
(* Orientation estimator: VisualizationTab                                 *)
(***************************************************************************)
\* the floats of the estimator are exact fractions [n, d], d > 0, in lowest terms
Abs(x) == IF x < 0 THEN -x ELSE x

RECURSIVE GCD(_, _)
GCD(a, b) == IF b = 0 THEN a ELSE GCD(b, a % b)

Rat(n, d) ==
    LET g == GCD(Abs(n), Abs(d))
        sign == IF d < 0 THEN -1 ELSE 1
    IN  [n |-> sign * (n \div g), d |-> Abs(d) \div g]

Zero == [n |-> 0, d |-> 1]
One == [n |-> 1, d |-> 1]

\* a * b
RatMul(a, b) ==
    LET g1 == GCD(Abs(a.n), b.d)
        g2 == GCD(Abs(b.n), a.d)
    IN  Rat((a.n \div g1) * (b.n \div g2), (a.d \div g2) * (b.d \div g1))

\* a + b
RatAdd(a, b) ==
    LET g == GCD(a.d, b.d)
    IN  Rat(a.n * (b.d \div g) + b.n * (a.d \div g), (a.d \div g) * b.d)

\* a - b
RatSub(a, b) == RatAdd(a, [n |-> -b.n, d |-> b.d])

\* abs(a)
RatAbs(a) == [n |-> Abs(a.n), d |-> a.d]

\* a <= b and a < b
RatLeq(a, b) ==
    LET g == GCD(a.d, b.d)
    IN  a.n * (b.d \div g) <= b.n * (a.d \div g)

RatLess(a, b) == RatLeq(a, b) /\ a # b

Axes == {"roll", "pitch", "yaw"}

\* self.gyro_sensitivity
gyro_sensitivity == 500

\* the raw gyro value of a turning controller; 0 is a controller at rest
GyroTurning == 20000

\* the gyro and accelerometer readings fed to the estimator
GyroInputs ==
    {[x |-> 0, y |-> 0, z |-> 0],
     [x |-> GyroTurning, y |-> GyroTurning, z |-> GyroTurning]}
AccelInputs == {[x |-> 0, y |-> 0, z |-> 1000]}

\* the axis_locks dicts a settings file gives: none, yaw, roll and yaw
LoadedLocks ==
    {[a \in Axes |-> FALSE], [a \in Axes |-> a = "yaw"], [a \in Axes |-> a # "pitch"]}

\* the time between two updates, in seconds
DtValues == {One}

\* the values of alpha and of the damping factor the settings give
AlphaValues == {Rat(4, 5), Rat(49, 50)}
DampingValues == {Rat(1, 10), Rat(9, 10)}

\* np.radians(x), with pi / 180 taken as 7 / 400
Radians(x) == RatMul(x, Rat(7, 400))

\* np.arctan2(y, x) for the readings fed: a controller lying flat gives 0
ArcTan2(y, x) == CHOOSE angle \in {Zero} : y = 0 /\ x > 0

\* np.sqrt of a perfect square
Sqrt(v) == CHOOSE r \in 0..v : r * r = v

\* lines 322-324: the gyro rate of one axis in radians per second
GyroRate(raw) == Radians(Rat(raw, gyro_sensitivity))

\* lines 329, 333: alpha * (value + rate * dt) + (1 - alpha) * accel_angle
Fused(value, rate, dt, accel_angle, a) ==
    RatAdd(RatMul(a, RatAdd(value, RatMul(rate, dt))),
           RatMul(RatSub(One, a), accel_angle))

\* mutant: the damping divides instead of multiplying
DampedInverse(value, rate, damping) ==
    IF RatLess(RatAbs(rate), Rat(1, 100))
    THEN RatMul(value, [n |-> damping.d, d |-> damping.n])
    ELSE value

\* lines 341-344: value *= damping when abs(rate) < 0.01
Damped(value, rate, damping) ==
    IF RatLess(RatAbs(rate), Rat(1, 100)) THEN RatMul(value, damping) ELSE value

\* mutant: the offset is added to the value drawn
DisplayedPlusOffset(value, offset) ==
    [a \in Axes |-> RatAdd(value[a], offset[a])]

\* update_gyro_triangle lines 357-359: display = value - offset
Displayed(value, offset) ==
    [a \in Axes |-> RatSub(value[a], offset[a])]

\* update_orientation_with_fusion lines 307-344: the orientation after the update
FusedOrientation(o, locks, gyro, accel, dt, a, damping) ==
    LET accel_roll  == ArcTan2(accel.y, accel.z)
        accel_pitch == ArcTan2(-accel.x, Sqrt(accel.y * accel.y + accel.z * accel.z))
        roll_rate   == GyroRate(gyro.x)
        pitch_rate  == GyroRate(gyro.z)
        yaw_rate    == GyroRate(gyro.y)
        roll1  == IF ~locks["roll"] THEN Fused(o["roll"], roll_rate, dt, accel_roll, a)
                  ELSE o["roll"]
        pitch1 == IF ~locks["pitch"] THEN Fused(o["pitch"], pitch_rate, dt, accel_pitch, a)
                  ELSE o["pitch"]
        yaw1   == IF ~locks["yaw"] THEN RatAdd(o["yaw"], RatMul(yaw_rate, dt))
                  ELSE o["yaw"]
    IN  [ax \in Axes |->
           IF ax = "roll"
           THEN (IF ~locks["roll"] THEN Damped(roll1, roll_rate, damping) ELSE roll1)
           ELSE IF ax = "pitch"
           THEN (IF ~locks["pitch"] THEN Damped(pitch1, pitch_rate, damping) ELSE pitch1)
           ELSE yaw1]

\* mutant: toggling touches the flag of its own axis only
ToggledLocksIndependent(locks, axis) == [locks EXCEPT ![axis] = ~locks[axis]]

\* _toggle_axis_lock lines 191-201: unlock the axis, or unlock all and lock it
ToggledLocks(locks, axis) ==
    IF locks[axis] THEN [locks EXCEPT ![axis] = FALSE]
    ELSE [a \in Axes |-> a = axis]

ZeroVector == [a \in Axes |-> Zero]
NoGyro == [x |-> 0, y |-> 0, z |-> 0]

\* what the history records of the state before an operation
Before == [orientation |-> orientation, offset |-> orientation_offset,
           locks |-> axis_locks, displayed |-> displayed]

OrientInitFixed ==
    /\ orientation = ZeroVector
    /\ orientation_offset = ZeroVector
    /\ locked_axis = "None"
    /\ displayed = ZeroVector
    /\ updates = 0
    /\ last_op = [op |-> "none", before_op |-> "none", axis |-> "None", gyro |-> NoGyro,
                  before |-> [orientation |-> ZeroVector, offset |-> ZeroVector,
                              locks |-> axis_locks, displayed |-> ZeroVector]]

\* the state after VisualizationTab.__init__
OrientInit ==
    /\ axis_locks = [a \in Axes |-> FALSE]
    /\ alpha = Rat(19, 20)
    /\ damping_factor = Rat(19, 20)
    /\ OrientInitFixed

\* the state after __init__ and the settings load: update_from_settings sets the
\* locks, set_sensor_fusion_parameters sets alpha and the damping factor
OrientInitAny ==
    /\ axis_locks \in LoadedLocks
    /\ alpha \in AlphaValues
    /\ damping_factor \in DampingValues
    /\ OrientInitFixed

\* update_visualizations: update_orientation_with_fusion, then update_gyro_triangle
UpdateOrientation ==
    /\ updates < MaxUpdates
    /\ \E gyro \in GyroInputs, accel \in AccelInputs, dt \in DtValues :
         /\ orientation' = FusedOrientation(orientation, axis_locks, gyro, accel, dt,
                                            alpha, damping_factor)
         /\ last_op' = [op |-> "update", before_op |-> last_op.op, axis |-> "None",
                        gyro |-> gyro, before |-> Before]
    /\ displayed' = Displayed(orientation', orientation_offset)
    /\ updates' = updates + 1
    /\ UNCHANGED <<orientation_offset, axis_locks, locked_axis, alpha, damping_factor>>

\* _set_neutral_orientation: the offset is captured and the triangle redrawn
SetNeutralOrientation ==
    /\ orientation_offset' = orientation
    /\ displayed' = Displayed(orientation, orientation_offset')
    /\ last_op' = [op |-> "neutral", before_op |-> last_op.op, axis |-> "None",
                   gyro |-> NoGyro, before |-> Before]
    /\ UNCHANGED <<orientation, axis_locks, locked_axis, alpha, damping_factor, updates>>

\* _toggle_axis_lock(axis)
ToggleAxisLock ==
    /\ \E axis \in Axes :
         /\ axis_locks' = ToggledLocks(axis_locks, axis)
         /\ locked_axis' = IF axis_locks[axis] THEN "None" ELSE axis
         /\ last_op' = [op |-> "toggle", before_op |-> last_op.op, axis |-> axis,
                        gyro |-> NoGyro, before |-> Before]
    /\ UNCHANGED <<orientation, orientation_offset, alpha, damping_factor, displayed, updates>>

(***************************************************************************)
(* Profile resolver: export_to_lua and the controller.processData it writes *)
(***************************************************************************)
\* the frontmost applications: one with a profile of its own, one without
Apps == {"Safari", "Finder"}

NoBinding == [k \in {} |-> [key |-> "", modifiers |-> {}, bttnamekey |-> ""]]

\* self.mappings of the editor: a keystroke binding, a named-trigger binding and
\* a d-pad binding in Default, one keystroke binding in Safari
ResolverMappings ==
    [name \in {"Default", "Safari"} |->
       IF name = "Default"
       THEN [buttons |-> [b \in {"cross", "circle"} |->
                            IF b = "cross"
                            THEN [key |-> "space", modifiers |-> {}, bttnamekey |-> ""]
                            ELSE [key |-> "", modifiers |-> {}, bttnamekey |-> "Mission Control"]],
             dpad |-> [d \in {"up"} |->
                         [key |-> "backspace", modifiers |-> {"shift", "opt"}, bttnamekey |-> ""]]]
       ELSE [buttons |-> [b \in {"circle"} |->
                            [key |-> "A", modifiers |-> {"cmd"}, bttnamekey |-> ""]],
             dpad |-> NoBinding]]

\* export_to_lua lines 485-491: the modifiers written, opt as alt
LuaModifiers(mods) ==
    {IF m = "opt" THEN "alt" ELSE m : m \in mods \cap {"cmd", "ctrl", "opt", "shift"}}

\* export_to_lua lines 481-493 and 507-519: only the bindings with a key are written
LuaSection(section) ==
    [k \in {i \in DOMAIN section : section[i].key # ""} |->
       [modifiers |-> LuaModifiers(section[k].modifiers), key |-> section[k].key]]

\* controller.mappings as written by export_to_lua
LuaMappings ==
    [name \in DOMAIN ResolverMappings |->
       [buttons |-> LuaSection(ResolverMappings[name].buttons),
        dpad |-> LuaSection(ResolverMappings[name].dpad)]]

\* line 582: the profile of the application, or Default
LuaProfile(appName) ==
    IF appName \in DOMAIN LuaMappings THEN LuaMappings[appName] ELSE LuaMappings["Default"]

\* key:lower()
Lower(key) == IF key = "A" THEN "a" ELSE key

\* translateKey: a key hs.keycodes knows is kept, otherwise keyTranslations
TranslateKey(key) ==
    LET k == Lower(key)
    IN  IF k \in {"space", "a", "delete", "return", "escape"} THEN k
        ELSE IF k = "backspace" THEN "delete"
        ELSE IF k = "enter" THEN "return"
        ELSE IF k = "esc" THEN "escape"
        ELSE k

\* lines 632-654: the keystroke sent for one event
Keystroke(input, mapping) ==
    [input |-> input, modifiers |-> mapping.modifiers, key |-> TranslateKey(mapping.key)]

\* lines 596-607: the buttons of the profile with a rising edge, in table order
LuaButtonEvents(profile, prev, decoded) ==
    LET hit == SelectSeq(ButtonOrder,
                   LAMBDA b : b \in DOMAIN profile.buttons /\ decoded.buttons[b] /\ ~prev[b])
    IN  [i \in 1..Len(hit) |-> Keystroke(hit[i], profile.buttons[hit[i]])]

\* lines 609-626: the d-pad event, sent when the d-pad goes back to none
LuaDpadEvents(profile, previousDpad, currentDpad) ==
    IF currentDpad # previousDpad /\ currentDpad = "none" /\ previousDpad # "none"
       /\ previousDpad \in DOMAIN profile.dpad
    THEN <<Keystroke("dpad_" \o previousDpad, profile.dpad[previousDpad])>>
    ELSE <<>>

\* the all-up snapshot
IdleSnapshot == [buttons |-> [b \in Buttons |-> FALSE], dpad |-> "none"]

\* the state of a freshly loaded controller.lua
ResolverInit ==
    /\ lua_previousState = [buttons |-> [a \in Apps |-> [b \in Buttons |-> FALSE]],
                            dpad |-> [a \in Apps |-> "none"]]
    /\ lua_events = <<>>
    /\ lua_app = "Finder"
    /\ lua_decoded = <<>>
    /\ lua_before_decoded = IdleSnapshot

\* controller.processData(data), data a snapshot in JSON
ProcessData ==
    \E appName \in Apps, decoded \in Snapshots :
        LET profile == LuaProfile(appName)
            prev    == lua_previousState.buttons[appName]
        IN  /\ lua_events' = LuaButtonEvents(profile, prev, decoded)
                               \o LuaDpadEvents(profile, lua_previousState.dpad[appName],
                                                decoded.dpad)
            /\ lua_previousState' =
                 [buttons |-> [lua_previousState.buttons EXCEPT ![appName] =
                                 [b \in Buttons |-> IF b \in DOMAIN profile.buttons
                                                    THEN decoded.buttons[b] ELSE prev[b]]],
                  dpad |-> [lua_previousState.dpad EXCEPT ![appName] = decoded.dpad]]
            /\ lua_app' = appName
            /\ lua_decoded' = <<decoded>>
            /\ lua_before_decoded' = IF lua_decoded = <<>> THEN IdleSnapshot ELSE lua_decoded[1]

\* controller.processData(data), data not JSON: pcall fails, the call returns
ProcessUndecodable ==
    /\ lua_decoded # <<>>
    /\ lua_events' = <<>>
    /\ lua_decoded' = <<>>
    /\ lua_before_decoded' = lua_decoded[1]
    /\ UNCHANGED <<lua_previousState, lua_app>>

(***************************************************************************)
(* Rumble motors: trigger_tactile_feedback and stop_tactile_feedback       *)
(***************************************************************************)
\* the durations (slider 10..200 ms) and intensities (slider 50..255) tried
DurationValues == {10, 50, 200}
IntensityValues == {50, 255}

RumbleInitFixed ==
    /\ motors = set_rumble_simple(0, 0)
    /\ after_queue = <<>>
    /\ fired_count = 0
    /\ stopped_count = 0

\* the state after RumbleTab.__init__: duration 50 ms, intensity 255
RumbleInit ==
    /\ tactile_duration = 50
    /\ tactile_intensity = 255
    /\ RumbleInitFixed

\* the state after the settings load
RumbleInitAny ==
    /\ tactile_duration \in DurationValues
    /\ tactile_intensity \in IntensityValues
    /\ RumbleInitFixed

\* the sequence without its i-th element
RemoveAt(seq, i) == [j \in 1..(Len(seq) - 1) |-> IF j < i THEN seq[j] ELSE seq[j + 1]]

\* DS4ControlUI.trigger_tactile_feedback(trigger), as RumbleTab calls it
TriggerTactileFeedback ==
    /\ fired_count < MaxRequests
    /\ \E trigger \in {"l2", "r2"} :
         LET done == AfterRequests(<<trigger>>, [motors |-> motors, queue |-> after_queue])
         IN  /\ motors' = done.motors
             /\ after_queue' = done.queue
    /\ fired_count' = fired_count + 1
    /\ UNCHANGED <<tactile_duration, tactile_intensity, stopped_count>>

\* an armed after() callback runs: DS4ControlUI.stop_tactile_feedback
StopTactileFeedback ==
    /\ \E i \in 1..Len(after_queue) : after_queue' = RemoveAt(after_queue, i)
    /\ motors' = set_rumble_simple(0, 0)
    /\ stopped_count' = stopped_count + 1
    /\ UNCHANGED <<tactile_duration, tactile_intensity, fired_count>>

\* the duration slider is moved: _on_duration_change
SetTactileDuration ==
    /\ \E d \in DurationValues : d # tactile_duration /\ tactile_duration' = d
    /\ UNCHANGED <<motors, after_queue, tactile_intensity, fired_count, stopped_count>>

(***************************************************************************)
(* One tick of the polling loop with a report, and the mapping flow        *)
(***************************************************************************)
\* number of reports the polling loop takes in one behaviour
MaxPolls == 2

\* the reports the loop takes: their length, digital content and trigger values
LoopReports ==
    {[len |-> 10, snap |-> IdleSnapshot, l2 |-> 0, r2 |-> 0],
     [len |-> 64, snap |-> [buttons |-> [b \in Buttons |-> b = "cross"], dpad |-> "none"],
      l2 |-> 200, r2 |-> 0],
     [len |-> 64, snap |-> [buttons |-> [b \in Buttons |-> FALSE], dpad |-> "up"],
      l2 |-> 0, r2 |-> 0],
     [len |-> 64, snap |-> [buttons |-> [b \in Buttons |-> FALSE], dpad |-> "ne"],
      l2 |-> 0, r2 |-> 0]}

\* the keys of MappingConfigFrame.BUTTON_LABELS: the buttons and the four
\* cardinal d-pad directions
BUTTON_LABELS == Buttons \cup {"dpad_up"}

\* the button of the mapping picture the user clicks
ClickedButtons == {"circle"}

\* DS4DataParser.validate_report
validate_report(report) == report.len >= 25

\* parse_controller_data returns for this length: the unpack of report[23:25] needs
\* 25 bytes, the touch branch of a report longer than 35 needs 40
Decodes(report) == report.len >= 25 /\ ~(report.len > 35 /\ report.len < 40)

\* main_window.py lines 238-245: is_visual_tab_active
IsVisualTabActive == visual_tab_active

\* main_window.py lines 258-264: pressed_button, "None" when there is none
PressedButton(changes) ==
    IF DOMAIN changes.buttons # {}
    THEN LET listed(b) == b \in DOMAIN changes.buttons
         IN  Head(SelectSeq(ButtonOrder, listed))
    ELSE IF changes.dpad # "None" THEN "dpad_" \o changes.dpad
    ELSE "None"

\* hid_control_ui_hybrid.py line 105: state == 'press', for a state that is a
\* Python bool or a string
IsPress(state) == state \notin BOOLEAN /\ state = "press"

\* hid_control_ui_hybrid.py lines 101-111: button_to_map; the values of
\* changes['buttons'] are True, none is 'press'
ButtonToMap(changes) ==
    LET pressed(b) == b \in DOMAIN changes.buttons /\ IsPress(changes.buttons[b])
        found == SelectSeq(ButtonOrder, pressed)
    IN  IF found # <<>> THEN Head(found)
        ELSE IF changes.dpad # "None" /\ changes.dpad # "none"
             THEN "dpad_" \o changes.dpad
        ELSE "None"

\* start_key_capture(btn): the flags are set, then BUTTON_LABELS[btn] is looked up
\* and the handlers are bound; a KeyError leaves the method before the bind
start_key_capture(capture, btn) ==
    IF capture.active THEN capture
    ELSE [active |-> TRUE, btn |-> btn, bound |-> btn \in BUTTON_LABELS]

\* handle_controller_press_for_mapping(button_name)
handle_controller_press_for_mapping(capture, button_name) ==
    [mapping |-> FALSE, capture |-> start_key_capture(capture, button_name)]

\* the capture state of the window
Capture ==
    [active |-> key_capture_active, btn |-> key_capture_btn, bound |-> key_handlers_bound]

\* the branch of either polling loop taken when mapping mode is on and the edge
\* detector returned a change-set
MappingBranch(changes) ==
    LET btn == IF ui = "base" THEN PressedButton(changes) ELSE ButtonToMap(changes)
    IN  IF btn # "None" THEN handle_controller_press_for_mapping(Capture, btn)
        ELSE [mapping |-> controller_mapping_active, capture |-> Capture]

LoopInitFixed ==
    /\ controller_mapping_active = FALSE
    /\ key_capture_active = FALSE
    /\ key_capture_btn = "None"
    /\ key_handlers_bound = FALSE
    /\ stage_trace = <<>>
    /\ polled = 0
    /\ loop_before = [mapping |-> FALSE, capture |-> FALSE]
    /\ loop_after = [mapping |-> FALSE, capture |-> FALSE, btn |-> "None", bound |-> FALSE]
    /\ loop_report = <<>>

\* the state after __init__, the window on its first tab
LoopInit == visual_tab_active = FALSE /\ LoopInitFixed

\* the window hidden or on another tab, or shown on the tab 'Live Visualization'
LoopInitAny == visual_tab_active \in BOOLEAN /\ LoopInitFixed

\* update_visualizations of the main window: the orientation estimator, then the
\* haptic detector
UpdateVisualizations(report) ==
    /\ UpdateOrientation
    /\ CheckTactileFeedbackOver({report.l2}, {report.r2})

\* the edge detector and what follows it: the mapping branch or the transport
DigitalStage(report) ==
    LET r == check_digital_changes(previous_digital_state, report.snap)
        intercepted == controller_mapping_active /\ r.ret # <<>>
        m == IF intercepted THEN MappingBranch(r.ret[1])
             ELSE [mapping |-> controller_mapping_active, capture |-> Capture]
    IN  /\ previous_digital_state' = r.state
        /\ digital_changes' = r.ret
        /\ before_data' = new_data
        /\ new_data' = <<report.snap>>
        /\ forwarded' = Dispatch(r.ret, controller_mapping_active)
        /\ controller_mapping_active' = m.mapping
        /\ key_capture_active' = m.capture.active
        /\ key_capture_btn' = m.capture.btn
        /\ key_handlers_bound' = m.capture.bound
        /\ loop_after' = [mapping |-> m.mapping, capture |-> m.capture.active,
                          btn |-> m.capture.btn, bound |-> m.capture.bound]
        /\ stage_trace' = <<"decoder">>
              \o (IF IsVisualTabActive THEN <<"orientation", "haptic">> ELSE <<>>)
              \o <<"edge">>
              \o (IF intercepted THEN <<"mapping">>
                  ELSE IF r.ret # <<>> THEN <<"transport">> ELSE <<>>)

\* poll_controller of either interface, one tick that has a report
PollOneReport ==
    /\ polled < MaxPolls
    /\ \E report \in LoopReports :
         /\ loop_report' = <<report>>
         /\ IF ~Decodes(report)
            THEN /\ stage_trace' = <<"decoder">>
                 /\ UNCHANGED <<previous_digital_state, digital_changes, before_data,
                                new_data, forwarded, controller_mapping_active,
                                key_capture_active, key_capture_btn, key_handlers_bound>>
                 /\ loop_after' = [mapping |-> controller_mapping_active,
                                   capture |-> key_capture_active,
                                   btn |-> key_capture_btn, bound |-> key_handlers_bound]
                 /\ UNCHANGED <<hapticVars, orientVars, rumbleVars, settingsVars>>
            ELSE /\ IF IsVisualTabActive
                    THEN UpdateVisualizations(report)
                    ELSE UNCHANGED <<hapticVars, orientVars, rumbleVars, settingsVars>>
                 /\ DigitalStage(report)
    /\ polled' = polled + 1
    /\ loop_before' = [mapping |-> controller_mapping_active, capture |-> key_capture_active]
    /\ UNCHANGED visual_tab_active
    /\ UNCHANGED <<active_profile, last_under, prev_under, call_profile, before_profile,
                   cross_hist, press_at>>

\* start_controller_mapping: the button 'Map with Controller'
StartControllerMapping ==
    /\ ~key_capture_active
    /\ ~controller_mapping_active
    /\ controller_mapping_active' = TRUE
    /\ UNCHANGED <<visual_tab_active, key_capture_active, key_capture_btn,
                   key_handlers_bound, stage_trace, polled, loop_before, loop_after,
                   loop_report>>

\* start_key_capture(btn, from_ui=True): a click on a button of the mapping picture
StartKeyCaptureFromUi ==
    /\ ~key_capture_active
    /\ \E btn \in ClickedButtons :
         LET c == start_key_capture(Capture, btn)
         IN  /\ key_capture_active' = c.active
             /\ key_capture_btn' = c.btn
             /\ key_handlers_bound' = c.bound
    /\ UNCHANGED <<visual_tab_active, controller_mapping_active, stage_trace, polled,
                   loop_before, loop_after, loop_report>>

\* _on_key_press for a key that is no modifier: _finish_key_capture or, for Esc,
\* _cancel_key_capture; both end in _cleanup_key_capture (the table of saved
\* bindings is not part of this model)
OnKeyPress ==
    /\ key_handlers_bound
    /\ key_handlers_bound' = FALSE
    /\ key_capture_active' = FALSE
    /\ key_capture_btn' = "None"
    /\ UNCHANGED <<visual_tab_active, controller_mapping_active, stage_trace, polled,
                   loop_before, loop_after, loop_report>>

(***************************************************************************)
(* Settings file: SettingsManager.save_settings and load_settings          *)
(***************************************************************************)
\* the threshold values the sliders were left at: the defaults, threshold 1 or 3 moved
ThresholdValueSets == {<<64, 128, 192>>, <<80, 128, 192>>, <<64, 128, 200>>}

\* _get_default_settings: the haptic keys of the file load_settings creates
DefaultSettings ==
    [k \in {"tactile_enabled", "threshold1_enabled", "threshold1_value",
            "threshold2_enabled", "threshold2_value", "threshold3_enabled",
            "threshold3_value", "tactile_duration", "tactile_intensity"} |->
       CASE k = "tactile_enabled" -> FALSE
         [] k = "threshold1_enabled" -> TRUE
         [] k = "threshold1_value" -> 64
         [] k = "threshold2_enabled" -> TRUE
         [] k = "threshold2_value" -> 128
         [] k = "threshold3_enabled" -> TRUE
         [] k = "threshold3_value" -> 192
         [] k = "tactile_duration" -> 50
         [] k = "tactile_intensity" -> 255]

\* RumbleTab.get_tactile_settings: the dict save_settings merges into the file
get_tactile_settings ==
    [k \in {"enabled", "threshold1_enabled", "threshold1_value", "threshold2_enabled",
            "threshold2_value", "threshold3_enabled", "threshold3_value", "duration",
            "intensity"} |->
       CASE k = "enabled" -> tactile_enabled
         [] k = "threshold1_enabled" -> threshold_enabled[1]
         [] k = "threshold1_value" -> threshold_values[1]
         [] k = "threshold2_enabled" -> threshold_enabled[2]
         [] k = "threshold2_value" -> threshold_values[2]
         [] k = "threshold3_enabled" -> threshold_enabled[3]
         [] k = "threshold3_value" -> threshold_values[3]
         [] k = "duration" -> tactile_duration
         [] k = "intensity" -> tactile_intensity]

\* RumbleTab.update_from_settings(settings): the configuration it sets
update_from_settings(settings) ==
    [enabled |-> Get(settings, "tactile_enabled", FALSE),
     threshold_enabled |-> <<Get(settings, "threshold1_enabled", TRUE),
                             Get(settings, "threshold2_enabled", TRUE),
                             Get(settings, "threshold3_enabled", TRUE)>>,
     threshold_values |-> <<Get(settings, "threshold1_value", 64),
                            Get(settings, "threshold2_value", 128),
                            Get(settings, "threshold3_value", 192)>>,
     duration |-> Get(settings, "tactile_duration", 50),
     intensity |-> Get(settings, "tactile_intensity", 255)]

\* the haptic configuration of the rumble tab
HapticConfig ==
    [enabled |-> tactile_enabled,
     threshold_enabled |-> threshold_enabled,
     threshold_values |-> threshold_values,
     duration |-> tactile_duration,
     intensity |-> tactile_intensity]

SettingsInitFixed ==
    /\ settings_file = DefaultSettings
    /\ saved_config = <<>>
    /\ settings_op = "none"

\* the first start: load_settings has written the default file
SettingsInit == threshold_values = <<64, 128, 192>> /\ SettingsInitFixed

\* the user has moved the slider of a threshold, or not
SettingsInitAny == threshold_values \in ThresholdValueSets /\ SettingsInitFixed

\* save_settings: the file is rewritten with the dict of get_tactile_settings (the
\* keys of the other tabs are not modelled; none of them is a haptic key)
SaveSettings ==
    /\ settings_file' = get_tactile_settings
    /\ saved_config' = <<HapticConfig>>
    /\ settings_op' = "save"
    /\ UNCHANGED <<threshold_values, tactile_enabled, threshold_enabled, tactile_duration,
                   tactile_intensity>>

\* the next start of the application: load_settings reads the file and
\* update_ui_from_settings hands it to the rumble tab
LoadSettings ==
    /\ LET c == update_from_settings(settings_file)
       IN  /\ tactile_enabled' = c.enabled
           /\ threshold_enabled' = c.threshold_enabled
           /\ threshold_values' = c.threshold_values
           /\ tactile_duration' = c.duration
           /\ tactile_intensity' = c.intensity
    /\ settings_op' = "load"
    /\ UNCHANGED <<settings_file, saved_config>>

(***************************************************************************)
(* Specifications                                                          *)
(***************************************************************************)
NextEdge ==
    \/ FeedSnapshot /\ UNCHANGED <<hapticVars, pipeVars, ipcVars, profileVars, decodeVars, orientVars, resolverVars, rumbleVars, loopVars, settingsVars>>
    \/ SwitchProfile /\ UNCHANGED <<hapticVars, pipeVars, ipcVars, profileVars, decodeVars, orientVars, resolverVars, rumbleVars, loopVars, settingsVars>>

InitEdge == EdgeInit /\ HapticInit /\ PipeInit /\ IpcInit /\ ProfileInit /\ DecodeInit /\ OrientInit /\ ResolverInit /\ RumbleInit /\ LoopInit /\ SettingsInit

SpecEdge == InitEdge /\ [][NextEdge]_vars

NextHaptic == CheckTactileFeedback /\ UNCHANGED <<edgeVars, pipeVars, ipcVars, profileVars, decodeVars, orientVars, resolverVars, loopVars, settingsVars>>

InitHaptic == EdgeInit /\ HapticInitAny /\ PipeInit /\ IpcInit /\ ProfileInit /\ DecodeInit /\ OrientInit /\ ResolverInit /\ RumbleInit /\ LoopInit /\ SettingsInit

SpecHaptic == InitHaptic /\ [][NextHaptic]_vars

NextHysteresis == CheckTactileFeedbackNearThreshold /\ UNCHANGED <<edgeVars, pipeVars, ipcVars, profileVars, decodeVars, orientVars, resolverVars, loopVars, settingsVars>>

InitHysteresis == EdgeInit /\ HapticInitAny /\ PipeInit /\ IpcInit /\ ProfileInit /\ DecodeInit /\ OrientInit /\ ResolverInit /\ RumbleInit /\ LoopInit /\ SettingsInit

SpecHysteresis == InitHysteresis /\ [][NextHysteresis]_vars

NextIpc ==
    \/ DatagramArrives /\ UNCHANGED <<edgeVars, hapticVars, pipeVars, profileVars, decodeVars, orientVars, resolverVars, rumbleVars, loopVars, settingsVars>>
    \/ CheckIpcSocket /\ UNCHANGED <<edgeVars, hapticVars, pipeVars, profileVars, decodeVars, orientVars, resolverVars, rumbleVars, loopVars, settingsVars>>

InitIpc == EdgeInit /\ HapticInit /\ PipeInit /\ IpcInitAny /\ ProfileInit /\ DecodeInit /\ OrientInit /\ ResolverInit /\ RumbleInit /\ LoopInit /\ SettingsInit

SpecIpc == InitIpc /\ [][NextIpc]_vars

NextProfiles ==
    \/ AddProfile /\ UNCHANGED <<edgeVars, hapticVars, pipeVars, ipcVars, decodeVars, orientVars, resolverVars, rumbleVars, loopVars, settingsVars>>
    \/ SelectProfile /\ UNCHANGED <<edgeVars, hapticVars, pipeVars, ipcVars, decodeVars, orientVars, resolverVars, rumbleVars, loopVars, settingsVars>>
    \/ DeleteProfile /\ UNCHANGED <<edgeVars, hapticVars, pipeVars, ipcVars, decodeVars, orientVars, resolverVars, rumbleVars, loopVars, settingsVars>>

InitProfiles == EdgeInit /\ HapticInit /\ PipeInit /\ IpcInit /\ ProfileInitAny /\ DecodeInit /\ OrientInit /\ ResolverInit /\ RumbleInit /\ LoopInit /\ SettingsInit

SpecProfiles == InitProfiles /\ [][NextProfiles]_vars

NextDecode == ParseReport /\ UNCHANGED <<edgeVars, hapticVars, pipeVars, ipcVars, profileVars, orientVars, resolverVars, rumbleVars, loopVars, settingsVars>>

InitDecode == EdgeInit /\ HapticInit /\ PipeInit /\ IpcInit /\ ProfileInit /\ DecodeInit /\ OrientInit /\ ResolverInit /\ RumbleInit /\ LoopInit /\ SettingsInit

SpecDecode == InitDecode /\ [][NextDecode]_vars

NextOrient ==
    \/ UpdateOrientation /\ UNCHANGED <<edgeVars, hapticVars, pipeVars, ipcVars, profileVars, decodeVars, resolverVars, rumbleVars, loopVars, settingsVars>>
    \/ SetNeutralOrientation /\ UNCHANGED <<edgeVars, hapticVars, pipeVars, ipcVars, profileVars, decodeVars, resolverVars, rumbleVars, loopVars, settingsVars>>
    \/ ToggleAxisLock /\ UNCHANGED <<edgeVars, hapticVars, pipeVars, ipcVars, profileVars, decodeVars, resolverVars, rumbleVars, loopVars, settingsVars>>

InitOrient == EdgeInit /\ HapticInit /\ PipeInit /\ IpcInit /\ ProfileInit /\ DecodeInit /\ OrientInitAny /\ ResolverInit /\ RumbleInit /\ LoopInit /\ SettingsInit

SpecOrient == InitOrient /\ [][NextOrient]_vars

NextResolver ==
    \/ ProcessData /\ UNCHANGED <<edgeVars, hapticVars, pipeVars, ipcVars, profileVars, decodeVars, orientVars, rumbleVars, loopVars, settingsVars>>
    \/ ProcessUndecodable /\ UNCHANGED <<edgeVars, hapticVars, pipeVars, ipcVars, profileVars, decodeVars, orientVars, rumbleVars, loopVars, settingsVars>>

InitResolver == EdgeInit /\ HapticInit /\ PipeInit /\ IpcInit /\ ProfileInit /\ DecodeInit /\ OrientInit /\ ResolverInit /\ RumbleInit /\ LoopInit /\ SettingsInit

SpecResolver == InitResolver /\ [][NextResolver]_vars

NextRumble ==
    \/ TriggerTactileFeedback /\ UNCHANGED <<edgeVars, hapticVars, pipeVars, ipcVars, profileVars, decodeVars, orientVars, resolverVars, loopVars, settingsVars>>
    \/ StopTactileFeedback /\ UNCHANGED <<edgeVars, hapticVars, pipeVars, ipcVars, profileVars, decodeVars, orientVars, resolverVars, loopVars, settingsVars>>
    \/ SetTactileDuration /\ UNCHANGED <<edgeVars, hapticVars, pipeVars, ipcVars, profileVars, decodeVars, orientVars, resolverVars, loopVars, settingsVars>>

InitRumble == EdgeInit /\ HapticInit /\ PipeInit /\ IpcInit /\ ProfileInit /\ DecodeInit /\ OrientInit /\ ResolverInit /\ RumbleInitAny /\ LoopInit /\ SettingsInit

SpecRumble == InitRumble /\ [][NextRumble]_vars

Next ==
    \/ ReaderRead
    \/ ReaderReadFails
    \/ ReaderExit
    \/ PollController
    \/ HybridPollController
    \/ HybridPollReadFails
    \/ QuitApplication
    \/ SenderGet
    \/ SenderSend
    \/ SenderSendFails
    \/ SenderExit

Init == EdgeInit /\ HapticInit /\ PipeInitAny /\ IpcInit /\ ProfileInit /\ DecodeInit /\ OrientInit /\ ResolverInit /\ RumbleInit /\ LoopInit /\ SettingsInit

\* the running application: reader thread, polling loop and sender thread interleaved
Spec == Init /\ [][Next]_vars

\* the Tk main loop runs a scheduled poll_controller; a blocked read of a lost
\* device returns with an error
SpecLive ==
    Init /\ [][Next]_vars /\ WF_vars(PollController) /\ WF_vars(HybridPollReadFails)

NextLoop ==
    \/ PollOneReport /\ UNCHANGED <<pipeVars, ipcVars, profileVars, decodeVars, resolverVars, settingsVars>>
    \/ StartControllerMapping /\ UNCHANGED <<edgeVars, hapticVars, pipeVars, ipcVars, profileVars, decodeVars, orientVars, resolverVars, rumbleVars, settingsVars>>
    \/ StartKeyCaptureFromUi /\ UNCHANGED <<edgeVars, hapticVars, pipeVars, ipcVars, profileVars, decodeVars, orientVars, resolverVars, rumbleVars, settingsVars>>
    \/ OnKeyPress /\ UNCHANGED <<edgeVars, hapticVars, pipeVars, ipcVars, profileVars, decodeVars, orientVars, resolverVars, rumbleVars, settingsVars>>

InitLoop == EdgeInit /\ HapticInit /\ PipeInitAny /\ IpcInit /\ ProfileInit /\ DecodeInit /\ OrientInit /\ ResolverInit /\ RumbleInit /\ LoopInitAny /\ SettingsInit

\* one tick of either polling loop at a time, the user acting between the ticks
SpecLoop == InitLoop /\ [][NextLoop]_vars

\* what neither save_settings nor load_settings touches
SettingsFrame ==
    /\ UNCHANGED <<prev_l2_value, prev_r2_value, l2_last_rumble_threshold,
                   r2_last_rumble_threshold, requests, l2_hist, l2_fires, l2_last_before,
                   motors, after_queue, fired_count, stopped_count>>
    /\ UNCHANGED <<edgeVars, pipeVars, ipcVars, profileVars, decodeVars, orientVars,
                   resolverVars, loopVars>>

NextSettings ==
    \/ SaveSettings /\ SettingsFrame
    \/ LoadSettings /\ SettingsFrame

InitSettings == EdgeInit /\ HapticInitAny /\ PipeInit /\ IpcInit /\ ProfileInit /\ DecodeInit /\ OrientInit /\ ResolverInit /\ RumbleInitAny /\ LoopInit /\ SettingsInitAny

\* the settings saved and the application started again, any number of times
SpecSettings == InitSettings /\ [][NextSettings]_vars

(***************************************************************************)
(* Claims about the edge detector and the datagrams of one change-set      *)
(***************************************************************************)
\* button b was down in the snapshot before the last one (nothing is down before the first)
WasDown(b) == before_data # <<>> /\ before_data[1].buttons[b]

\* the last call reported a press for button b
Reported(b) == digital_changes # <<>> /\ b \in DOMAIN digital_changes[1].buttons

\* the buttons that rose between the last two snapshots
RisingButtons == {b \in Buttons : new_data[1].buttons[b] /\ ~WasDown(b)}

\* the d-pad value of the last snapshot is a direction and differs from the one before
DpadRose ==
    /\ new_data[1].dpad # "none"
    /\ new_data[1].dpad # (IF before_data = <<>> THEN "none" ELSE before_data[1].dpad)

\* C1: a press for button b is reported at snapshot i exactly when b is true in
\* snapshot i and false (or absent) in snapshot i-1, nothing being down before the
\* first snapshot; the sequence false, true, true, false, true of one button gives
\* presses at indices 1 and 4 only.
C1_PressExactlyOnRisingEdge ==
    /\ new_data # <<>> =>
         \A b \in Buttons : Reported(b) <=> (new_data[1].buttons[b] /\ ~WasDown(b))
    /\ cross_hist = <<FALSE, TRUE, TRUE, FALSE, TRUE>> => press_at = {1, 4}

C1_Witness ==
    /\ cross_hist = <<FALSE, TRUE, TRUE, FALSE, TRUE>>
    /\ press_at = {1, 4}
    /\ digital_changes # <<>>

\* C2: when button X is pressed in a snapshot processed under one profile and the
\* following snapshot, with X pressed, is processed under another profile whose own
\* last known state has X not pressed (or which was never seen), a press for X is
\* reported for that other profile.
C2_PressPerProfile ==
    \A b \in Buttons :
        ( /\ new_data # <<>>
          /\ before_data # <<>>
          /\ before_profile # call_profile
          /\ before_data[1].buttons[b]
          /\ new_data[1].buttons[b]
          /\ b \notin prev_under )
        => Reported(b)

\* C3: a change-set is returned exactly when the snapshot holds a rising edge; it
\* lists exactly the rising edges, no button entry is false and the d-pad entry is
\* never "none"; when nothing rose the return is None and no datagram is sent.
C3_ChangeSetIffRisingEdge ==
    new_data # <<>> =>
        /\ (digital_changes # <<>>) <=> (RisingButtons # {} \/ DpadRose)
        /\ digital_changes # <<>> =>
             /\ DOMAIN digital_changes[1].buttons = RisingButtons
             /\ \A b \in DOMAIN digital_changes[1].buttons : digital_changes[1].buttons[b]
             /\ digital_changes[1].dpad = (IF DpadRose THEN new_data[1].dpad ELSE "None")
             /\ digital_changes[1].dpad # "none"
        /\ digital_changes = <<>> => forwarded = <<>>

\* a release and a d-pad return to none, reported as no change at all
C3_Witness ==
    /\ new_data # <<>> /\ before_data # <<>>
    /\ before_data[1].buttons["cross"] /\ ~new_data[1].buttons["cross"]
    /\ before_data[1].dpad = "up" /\ new_data[1].dpad = "none"
    /\ digital_changes = <<>>
    /\ forwarded = <<>>

\* the number of entries of the change-set that are presses
PressCount(changes) ==
    Cardinality({b \in DOMAIN changes.buttons : changes.buttons[b]})
      + (IF changes.dpad \notin {"None", "none"} THEN 1 ELSE 0)

\* the button names a change-set stands for
PressNames(changes) ==
    {b \in DOMAIN changes.buttons : changes.buttons[b]}
      \cup (IF changes.dpad \notin {"None", "none"} THEN {"dpad_" \o changes.dpad} ELSE {})

\* C6: for each change-set forwarded, the number of datagrams queued is the number
\* of newly pressed buttons plus one for a d-pad press; each datagram is one press
\* event with a single button name; only cross newly pressed gives exactly one
\* datagram, with button "cross".
C6_OneDatagramPerPress ==
    digital_changes # <<>> =>
        /\ Len(forwarded) = PressCount(digital_changes[1])
        /\ {forwarded[i].button : i \in 1..Len(forwarded)} = PressNames(digital_changes[1])
        /\ \A i \in 1..Len(forwarded) : forwarded[i].event_type = "press"
        /\ (RisingButtons = {"cross"} /\ ~DpadRose) => forwarded = <<PressEvent("cross")>>

\* two buttons and a d-pad direction pressed in one report: three datagrams
C6_Witness ==
    /\ digital_changes # <<>>
    /\ RisingButtons = {"cross", "circle"}
    /\ DpadRose
    /\ Len(forwarded) = 3

(***************************************************************************)
(* Claims about the haptic threshold detector                              *)
(***************************************************************************)
\* C4: tactile feedback enabled, threshold 128 alone enabled, previous value 0:
\* the L2 values 120, 130, 129, 131, 126 fire exactly one request, at the step
\* from 120 to 130; 129, 131 and 126 fire nothing.
C4_OneRequestForTheSequence ==
    ( /\ tactile_enabled
      /\ threshold_enabled = <<FALSE, TRUE, FALSE>>
      /\ l2_hist = <<120, 130, 129, 131, 126>> )
    => l2_fires = <<0, 1, 0, 0, 0>>

C4_Witness ==
    /\ tactile_enabled
    /\ threshold_enabled = <<FALSE, TRUE, FALSE>>
    /\ l2_hist = <<120, 130, 129, 131, 126>>
    /\ l2_fires = <<0, 1, 0, 0, 0>>
    /\ l2_last_rumble_threshold = 0

\* C20: for L2 and each enabled threshold T, a call whose previous value is above T
\* and whose current value is at or below T, T not being the threshold L2 fired
\* last, fires a feedback request.
C20_DownwardCrossingFires ==
    \A n \in 1..3 :
        LET k == Len(l2_hist)
            prev_value == IF k = 1 THEN 0 ELSE l2_hist[k - 1]
        IN  ( /\ k >= 1
              /\ tactile_enabled
              /\ threshold_enabled[n]
              /\ prev_value > threshold_value[n]
              /\ l2_hist[k] <= threshold_value[n]
              /\ l2_last_before # n )
            => l2_fires[k] >= 1

\* the number of requests fired for L2 by the calls made so far
RECURSIVE Sum(_)
Sum(seq) == IF seq = <<>> THEN 0 ELSE Head(seq) + Sum(Tail(seq))

\* C21: with threshold 128 alone enabled, once it has fired for L2 a later call
\* whose value is less than hysteresis_margin away from 128 fires nothing; the
\* L2 values 127, 128, 127, 128 (from previous value 0) fire exactly one request.
C21_NoRefireWithinMargin ==
    LET k == Len(l2_hist)
    IN  ( /\ tactile_enabled
          /\ threshold_enabled = <<FALSE, TRUE, FALSE>>
          /\ k >= 2 )
        => /\ ( /\ Sum(SubSeq(l2_fires, 1, k - 1)) >= 1
                /\ Abs(l2_hist[k] - threshold2_value) < hysteresis_margin )
              => l2_fires[k] = 0
           /\ l2_hist = <<127, 128, 127, 128>> => Sum(l2_fires) = 1

\* C22: the last request a call fired routes to its own motor: fired for L2, the
\* report written has the left (strong) motor at the configured intensity and the
\* right motor at 0; fired for R2, the right (weak) motor at the intensity and the
\* left motor at 0.
C22_RequestRoutedToOwnMotor ==
    requests # <<>> =>
        /\ requests[Len(requests)] = "l2"
              => motors = [left |-> tactile_intensity, right |-> 0]
        /\ requests[Len(requests)] = "r2"
              => motors = [left |-> 0, right |-> tactile_intensity]

(***************************************************************************)
(* Claims about the threads of the pipeline                                *)
(***************************************************************************)
\* C5: every datagram derived from report N is sent on the socket before any
\* datagram derived from report N+1, reports numbered in the order they were read.
C5_DatagramsInReportOrder ==
    \A i, j \in 1..Len(sent) : i < j => sent[i].report <= sent[j].report

\* datagrams of two reports were sent while a third report was still being queued
C5_Witness ==
    /\ Len(sent) >= 3
    /\ sent[1].report # sent[Len(sent)].report
    /\ udp_queue # <<>>

\* C8: a failed send is dropped and counted as dropped, and the sender goes on: a
\* send error is never fatal to the transport while the manager is running.
C8_SendErrorNotFatal ==
    send_errors > 0 =>
        /\ packets_saved >= send_errors
        /\ udp_running => sender_pc # "dead"

(***************************************************************************)
(* Claims about the inbound command channel                                *)
(***************************************************************************)
\* C7 as stated: for every inbound datagram the lightbar callback is invoked once
\* exactly when the payload is a JSON object whose command is set_lightbar, the
\* toggle-window callback once exactly when the payload is the bare text
\* toggle_window, and no exception escapes.
C7_DispatchByWholePayload ==
    last_recv # <<>> =>
        /\ lightbar_invoked =
             (IF lightbar_callback /\ last_recv[1].whole = "lightbar_object" THEN 1 ELSE 0)
        /\ toggle_invoked =
             (IF toggle_window_callback /\ last_recv[1].whole = "toggle_window" THEN 1 ELSE 0)
        /\ ~ipc_escaped

\* C7 (amended): the same, the payload being what recvfrom(1024) keeps of the
\* datagram, its first 1024 bytes: the lightbar callback is invoked once exactly
\* when that is a JSON object whose command is set_lightbar, the toggle-window
\* callback once exactly when it is the bare text toggle_window, otherwise no
\* callback; no exception escapes, the manager keeps running and the next check
\* is possible.
C7_DispatchByReceivedBytes ==
    /\ ~ipc_escaped
    /\ udp_running
    /\ lightbar_invoked + toggle_invoked <= 1
    /\ last_recv = <<>> => lightbar_invoked = 0 /\ toggle_invoked = 0
    /\ last_recv # <<>> =>
        /\ lightbar_invoked =
             (IF lightbar_callback /\ last_recv[1].head = "lightbar_object" THEN 1 ELSE 0)
        /\ toggle_invoked =
             (IF toggle_window_callback /\ last_recv[1].head = "toggle_window" THEN 1 ELSE 0)

\* JSON that is not an object was received and ignored, and a command is waiting
C7_Witness ==
    /\ last_recv # <<>>
    /\ last_recv[1].head = "json_array"
    /\ lightbar_invoked = 0 /\ toggle_invoked = 0
    /\ ~ipc_escaped
    /\ ipc_inbox # <<>>
    /\ ipc_inbox[1].head = "lightbar_object"

(***************************************************************************)
(* Claims about the profile table                                          *)
(***************************************************************************)
\* C9: after any sequence of add-profile, select-profile and delete-profile
\* operations, from any loaded table, a profile named Default is in the table
\* (delete_profile never removes it) and the active profile name names a profile
\* of the table.
C9_DefaultAlwaysPresent ==
    /\ "Default" \in Range(mappings)
    /\ active_profile_name \in Range(mappings)
    /\ listbox = mappings

\* a profile other than Default was just deleted from a table that had Default last
C9_Witness ==
    /\ last_profile_op = "delete"
    /\ active_profile_name = "Default"
    /\ Len(mappings) >= 2
    /\ mappings[Len(mappings)] # "Default"
    /\ mappings[1] # "Default"

(***************************************************************************)
(* Claims about the report decoder                                         *)
(***************************************************************************)
\* C10: for every report of 36 bytes or more that is decoded, touch.active is
\* true exactly when bit 7 of byte 35 is clear, and touch.id is the low 7 bits
\* of byte 35.
C10_TouchActiveWhenBit7Clear ==
    (last_report # <<>> /\ parsed_data # <<>> /\ last_report[1].len >= 36) =>
        /\ parsed_data[1].touchpad.active = ((last_report[1].at[35] \div 128) % 2 = 0)
        /\ parsed_data[1].touchpad.id = last_report[1].at[35] % 128

\* C11: for every report of length 25 or more parse_controller_data returns a
\* snapshot without raising, lengths 36 to 39 included; touch is inactive with
\* id, x and y 0 when the report is too short to carry the touch fields, and
\* battery is 0 when the report is shorter than 31 bytes.
C11_DecodeNeverRaises ==
    last_report # <<>> =>
        /\ parsed_data # <<>>
        /\ last_report[1].len <= 35 =>
             parsed_data[1].touchpad = [active |-> FALSE, id |-> 0, x |-> 0, y |-> 0]
        /\ last_report[1].len < 31 => parsed_data[1].battery = 0

(***************************************************************************)
(* Claims about the orientation estimator                                  *)
(***************************************************************************)
\* C12: capturing the offset stores the current roll, pitch and yaw as the
\* offset without changing the filter's values; right after a capture the
\* displayed orientation is (0,0,0), and a second capture with no update in
\* between leaves offset and displayed orientation unchanged.
C12_CaptureOffsetIdempotent ==
    last_op.op = "neutral" =>
        /\ orientation = last_op.before.orientation
        /\ orientation_offset = orientation
        /\ displayed = ZeroVector
        /\ last_op.before_op = "neutral" =>
             /\ orientation_offset = last_op.before.offset
             /\ displayed = last_op.before.displayed

\* a second capture in a row, with all three angles away from 0
C12_Witness ==
    /\ last_op.op = "neutral"
    /\ last_op.before_op = "neutral"
    /\ \A a \in Axes : orientation[a] # Zero
    /\ displayed = ZeroVector

\* C13: toggling the lock of one axis changes only that axis's lock flag and
\* leaves the lock flags of the other two axes unchanged.
C13_LocksIndependent ==
    last_op.op = "toggle" =>
        \A a \in Axes \ {last_op.axis} : axis_locks[a] = last_op.before.locks[a]

\* C18: with all gyro inputs 0, the accelerometer at (0,0,1000), roll and pitch
\* unlocked, alpha in [0.8, 0.98] and a damping factor in (0, 1], an update does
\* not increase |roll| or |pitch|, and both shrink by the factor 0.98 or less at
\* every update, so they converge toward 0.
C18_FlatUpdateContracts ==
    ( /\ last_op.op = "update"
      /\ last_op.gyro = NoGyro
      /\ RatLeq(Rat(4, 5), alpha) /\ RatLeq(alpha, Rat(49, 50))
      /\ RatLess(Zero, damping_factor) /\ RatLeq(damping_factor, One) )
    => \A a \in {"roll", "pitch"} :
         ~last_op.before.locks[a] =>
            /\ RatLeq(RatAbs(orientation[a]), RatAbs(last_op.before.orientation[a]))
            /\ RatLeq(RatAbs(orientation[a]),
                      RatMul(Rat(49, 50), RatAbs(last_op.before.orientation[a])))

\* an update at rest that started with roll and pitch away from 0, both unlocked
C18_Witness ==
    /\ last_op.op = "update"
    /\ last_op.gyro = NoGyro
    /\ ~last_op.before.locks["roll"] /\ ~last_op.before.locks["pitch"]
    /\ last_op.before.orientation["roll"] # Zero
    /\ last_op.before.orientation["pitch"] # Zero
    /\ RatLess(RatAbs(orientation["roll"]), RatAbs(last_op.before.orientation["roll"]))

(***************************************************************************)
(* Claims about the profile resolver                                       *)
(***************************************************************************)
\* the profile of the editor that is active for the application of the last call
ActiveMappings ==
    IF lua_app \in DOMAIN ResolverMappings THEN ResolverMappings[lua_app]
    ELSE ResolverMappings["Default"]

\* the inputs pressed by the last snapshot: down now, not down in the one before
PressedInputs ==
    IF lua_decoded = <<>> THEN {}
    ELSE {b \in Buttons : lua_decoded[1].buttons[b] /\ ~lua_before_decoded.buttons[b]}
         \cup (IF lua_decoded[1].dpad # "none" /\ lua_decoded[1].dpad # lua_before_decoded.dpad
               THEN {"dpad_" \o lua_decoded[1].dpad} ELSE {})

\* the active profile itself has a binding for the input
BoundInActive(input) ==
    \/ input \in DOMAIN ActiveMappings.buttons
    \/ \E d \in DOMAIN ActiveMappings.dpad : input = "dpad_" \o d

EventsFor(input) == Len(SelectSeq(lua_events, LAMBDA e : e.input = input))

\* C14: for each pressed button or d-pad direction the resolver emits exactly
\* one event if the active profile itself has a binding for it, none otherwise.
C14_OneEventPerBoundPress ==
    \A input \in PressedInputs :
        EventsFor(input) = (IF BoundInActive(input) THEN 1 ELSE 0)

(***************************************************************************)
(* Claims about the rumble motors                                          *)
(***************************************************************************)
\* C15: every fired request arms one turn-off of its own (run or still
\* pending), and once every armed turn-off has run with no new request fired,
\* both motors are at 0: a motor that is on always has a turn-off pending.
C15_MotorsOffAfterTurnOffs ==
    /\ fired_count = stopped_count + Len(after_queue)
    /\ after_queue = <<>> => motors = set_rumble_simple(0, 0)

\* a second request was fired before the first turn-off ran, then both ran
C15_Witness ==
    /\ fired_count >= 2
    /\ stopped_count = fired_count
    /\ after_queue = <<>>
    /\ motors = set_rumble_simple(0, 0)
    /\ tactile_duration # 50

\* C27: while the turn-off armed by a request is still pending (the duration of
\* that request has not elapsed), a motor is held at the configured intensity;
\* also when several requests were fired shortly one after the other.
C27_MotorHeldForDuration ==
    after_queue # <<>> =>
        \/ motors.left = tactile_intensity
        \/ motors.right = tactile_intensity

(***************************************************************************)
(* Claims about the report queue and the shutdown of the loops             *)
(***************************************************************************)
\* C16: the number of reports waiting between the acquisition thread and the
\* processing loop never exceeds a fixed capacity, here QueueCapacity, whatever
\* the relative rates of device reads and polling ticks.
C16_QueueNeverExceedsCapacity == Len(report_queue) <= QueueCapacity

C19_HeldAcrossSwitchNotReported ==
    /\ \A b \in Buttons :
         ( /\ new_data # <<>>
           /\ before_data # <<>>
           /\ before_data[1].buttons[b]
           /\ new_data[1].buttons[b] )
         => ~Reported(b)
    /\ \A i \in 1..(Len(cross_hist) - 1) :
         (cross_hist[i] /\ cross_hist[i + 1]) => i \notin press_at

\* cross is held while the profile changes and circle is pressed under the new
\* profile: the change-set of that call lists circle and not cross
C19_Witness ==
    /\ new_data # <<>> /\ before_data # <<>>
    /\ before_profile # call_profile
    /\ before_data[1].buttons["cross"] /\ new_data[1].buttons["cross"]
    /\ ~before_data[1].buttons["circle"] /\ new_data[1].buttons["circle"]
    /\ Reported("circle") /\ ~Reported("cross")

\* C23: the reports handed to the edge detector are the reports read, each once and
\* in read order (the k-th report processed is the k-th report read, so no report
\* read earlier is passed over), and the stored state of the edge detector is the
\* digital state of the last report processed.
C23_EveryReportProcessedInReadOrder ==
    /\ \A i \in 1..Len(processed) : processed[i] = i
    /\ processed # <<>> =>
         previous_digital_state = [buttons |-> new_data[1].buttons,
                                   dpad |-> new_data[1].dpad]

\* C24: once the sender thread has ended after a shutdown (no send having failed),
\* no report has one datagram of its change-set sent and another left unsent on
\* the queue: each change-set was sent as a whole or not at all.
C24_ChangeSetSentWhollyOrNotAtAll ==
    (sender_pc = "dead" /\ send_errors = 0) =>
        \A i \in 1..Len(udp_queue), j \in 1..Len(sent) :
            udp_queue[i].report # sent[j].report

(***************************************************************************)
(* Claims about one tick of the polling loop and the mapping flow          *)
(***************************************************************************)
\* the tick before this state took a report that the decoder accepted
TickDecoded == polled > 0 /\ Decodes(loop_report[1])

\* the number of times a stage ran in the last tick
Runs(stage) == Cardinality({i \in 1..Len(stage_trace) : stage_trace[i] = stage})

\* the position of a stage that ran once
Position(stage) == CHOOSE i \in 1..Len(stage_trace) : stage_trace[i] = stage

\* C25: for a decoded report the decoder, the edge detector, the orientation
\* estimator and the haptic detector each run exactly once, in that order, and the
\* transport, when it runs, runs last; whatever tab the window shows.
C25_StagesOnceInOrder ==
    TickDecoded =>
        /\ \A stage \in {"decoder", "edge", "orientation", "haptic"} : Runs(stage) = 1
        /\ Position("decoder") < Position("edge")
        /\ Position("edge") < Position("orientation")
        /\ Position("orientation") < Position("haptic")
        /\ Runs("transport") = 1 => Position("haptic") < Position("transport")

\* C26: a report is handed to the decoder only after validate_report has run and
\* accepted it: a report shorter than 25 bytes never reaches the decoder.
C26_DecoderOnlyAfterValidation ==
    \A i \in 1..Len(stage_trace) :
        stage_trace[i] = "decoder" =>
            /\ validate_report(loop_report[1])
            /\ i > 1 /\ stage_trace[i - 1] = "validate"

\* C28: a tick that begins in mapping mode (no key capture running) and whose
\* report holds a new press ends with the mapping flag cleared and the key capture
\* started for a pressed input, and nothing is sent; in either interface.
C28_MappingEndsOnFirstPress ==
    ( /\ TickDecoded
      /\ loop_before.mapping /\ ~loop_before.capture
      /\ digital_changes # <<>> )
    => LET changes == digital_changes[1]
           inputs == DOMAIN changes.buttons
                       \cup (IF changes.dpad # "None" THEN {"dpad_" \o changes.dpad} ELSE {})
       IN  /\ ~loop_after.mapping
           /\ loop_after.capture
           /\ loop_after.btn \in inputs
           /\ forwarded = <<>>

\* C29: whenever key capture is active, the key handlers are bound.
C29_CaptureHasHandlers == key_capture_active => key_handlers_bound


(***************************************************************************)
(* Claims about the settings file                                          *)
(***************************************************************************)
\* C30: after a load that follows a save, the haptic configuration (the tactile
\* flag, the enable flag and the value of each threshold, the duration and the
\* intensity) equals the configuration at the time of the save.
C30_SaveLoadRestoresHaptics ==
    (settings_op = "load" /\ saved_config # <<>>) => HapticConfig = saved_config[1]
====
